---- MODULE Spec2Model ----
(***************************************************************************)
(* Model of the statsbomb-viz pipeline: bronze ingestion (pipeline/bronze), *)
(* silver construction (pipeline/silver, pipeline/utils), gold aggregation  *)
(* (pipeline/gold), the xG apply step (scripts/apply_xg_model) and the PPDA *)
(* pass (scripts/ppda).  Each program is a sequential process; one action   *)
(* is one call made by its run()/main().                                    *)
(***************************************************************************)
EXTENDS Integers, Sequences, FiniteSets, TLC

VARIABLES
    rawFiles,      \* data/statsbomb_raw: unit -> NoFile or the JSON document
    bronzeFiles,   \* data/bronze: unit -> NoFile or the parquet artifact
    bpc,           \* position of bronze.run(): [at, c, m]
    force,         \* the force argument of the current bronze.run()
    written,       \* artifacts written (to_parquet) by the current bronze.run()
    bronzeAtStart, \* data/bronze as it was when the current bronze.run() began
    bronzeRuns,    \* number of bronze.run() invocations started
    completedBefore, \* a bronze.run() had returned normally before the current one began
    arg,           \* the argument of the last unpack_location call
    ret,           \* what that call returned or raised
    bronze,        \* data/bronze as the silver stage reads it: [defect, events]
    store,         \* the DuckDB file: table name -> [writer, columns, rows]
    pc,            \* the program using the store: [prog, at, err]
    df_events,     \* silver.run(): the events frame read once for the fact builders
    replaced,      \* tables dropped or created by the current program
    xg_model_pkl,  \* models/xg_model.pkl: NoModel or the persisted pipeline
    reapplied,     \* the last xG apply step found an xg_model column in fact_shots
    trained,       \* xg_model.py main(): the model train() returned, if it has
    main,          \* run_pipeline.py main(): [argv, at, running, began, raised]
    xt             \* xt_model.py main(): its position and local variables

bronzeVars == <<rawFiles, bronzeFiles, bpc, force, written, bronzeAtStart,
                bronzeRuns, completedBefore>>

utilVars == <<arg, ret>>

storeVars == <<bronze, store, pc, df_events, replaced, xg_model_pkl, reapplied>>

trainVars == <<trained>>

mainVars == <<main>>

xtVars == <<xt>>

vars == <<bronzeVars, utilVars, storeVars, trainVars, mainVars, xtVars>>

nonBronzeVars == <<utilVars, storeVars, trainVars, mainVars, xtVars>>
nonUtilVars == <<bronzeVars, storeVars, trainVars, mainVars, xtVars>>
nonStoreVars == <<bronzeVars, utilVars, trainVars, mainVars, xtVars>>

NoFile == <<"NoFile">>

\* Python values: None/NaN/NULL is Null, any other value v is Some(v)
Null == <<>>
Some(v) == <<v>>

-----------------------------------------------------------------------------
(* Bounds *)
MaxComps == 2
MaxMatches == 2
MaxBronzeRuns == 2
MaxMissing == 1
MaxCoord == 2
MaxSeries == 2
MaxEvents == 2
MaxPlayers == 1
MaxIntervals == 2
MaxCompRows == 2

-----------------------------------------------------------------------------
(* Bronze ingestion: pipeline/bronze.py *)

\* enabled entries of config/competitions.yaml, in file order
competitions == 1 .. MaxComps

\* match_ids read from matches/<cid>/<sid>.json, in file order
match_ids(c) == [k \in 1 .. MaxMatches |-> (c - 1) * MaxMatches + k]

AllMatches == {match_ids(c)[k] : c \in competitions, k \in 1 .. MaxMatches}

Units == {<<"competitions", 0>>}
         \cup {<<"matches", c>> : c \in competitions}
         \cup {<<"events", m>> : m \in AllMatches}
         \cup {<<"lineups", m>> : m \in AllMatches}

\* _json_to_df(src) followed by df.to_parquet(dst)
_json_to_df(doc) == <<"parquet", doc>>

\* dict.get(key, default): a key that is absent is Null
Get(v, default) == IF v = Null THEN default ELSE v[1]

RECURSIVE Flatten(_)
Flatten(seqs) == IF seqs = <<>> THEN <<>> ELSE Head(seqs) \o Flatten(Tail(seqs))

\* ingest_lineups: the rows of one player, one per entry of `positions` and
\* the bare row when there is none
PlayerRowsMut(row, positions) ==
    [k \in 1 .. Len(positions) |->
        row @@ [position_id |-> positions[k].position_id,
                position |-> positions[k].position,
                from_time |-> positions[k].from]]
PlayerRows(row, positions) ==
    IF positions = <<>> THEN <<row>>
    ELSE [k \in 1 .. Len(positions) |->
             row @@ [position_id |-> positions[k].position_id,
                     position |-> positions[k].position,
                     from_time |-> positions[k].from]]

\* ingest_lineups: the loop over the teams of the document and their players
lineup_rows(match_id, data) ==
    Flatten([t \in 1 .. Len(data) |->
        LET lineup == Get(data[t].lineup, <<>>) IN
        Flatten([p \in 1 .. Len(lineup) |->
            PlayerRows([match_id |-> Some(match_id),
                        team_id |-> data[t].team_id,
                        team_name |-> data[t].team_name,
                        player_id |-> lineup[p].player_id,
                        player_name |-> lineup[p].player_name,
                        jersey_number |-> lineup[p].jersey_number,
                        country |-> Get(lineup[p].country, [name |-> Null]).name],
                       Get(lineup[p].positions, <<>>))])])

\* pd.DataFrame(rows): the columns are the keys of the rows, a key that a
\* row does not have is NaN in it
DataFrame(rows) ==
    LET cols == UNION {DOMAIN rows[i] : i \in 1 .. Len(rows)} IN
    [columns |-> cols,
     rows |-> [i \in 1 .. Len(rows) |->
                 [c \in cols |-> IF c \in DOMAIN rows[i] THEN rows[i][c] ELSE Null]]]

\* the guard `dst.exists() and not force`
SkipExistsMut(dst, f) == bronzeFiles[dst] # NoFile /\ f
SkipExists(dst, f) == bronzeFiles[dst] # NoFile /\ ~f

\* One ingest_* call on unit u: "skip" when the destination exists and force
\* is false, "raise" when the source document is missing (read_text raises
\* FileNotFoundError), "write" otherwise.
IngestOutcome(u) ==
    IF SkipExists(u, force) THEN "skip"
    ELSE IF rawFiles[u] = NoFile THEN "raise"
    ELSE "write"

\* the effect of one ingest_* call on data/bronze: df.to_parquet(dst)
to_parquet(u, df) ==
    IF IngestOutcome(u) = "write"
    THEN /\ bronzeFiles' = [bronzeFiles EXCEPT ![u] = df]
         /\ written' = written \cup {u}
    ELSE UNCHANGED <<bronzeFiles, written>>

Ingest(u) == to_parquet(u, _json_to_df(rawFiles[u]))

At(a, c, m) == [at |-> a, c |-> c, m |-> m]

\* run(force): entry, up to the first ingest call
bronze_entry(f) ==
    /\ bpc.at \in {"idle", "done", "failed"}
    /\ bronzeRuns < MaxBronzeRuns
    /\ bronzeRuns' = bronzeRuns + 1
    /\ force' = f
    /\ written' = {}
    /\ bronzeAtStart' = bronzeFiles
    /\ completedBefore' = (completedBefore \/ bpc.at = "done")
    /\ bpc' = At("competitions", 0, 0)
    /\ UNCHANGED <<rawFiles, bronzeFiles>>

bronze_run(f) == bronze_entry(f) /\ UNCHANGED nonBronzeVars

ingest_competitions ==
    /\ bpc.at = "competitions"
    /\ Ingest(<<"competitions", 0>>)
    /\ bpc' = IF IngestOutcome(<<"competitions", 0>>) = "raise"
              THEN At("failed", 0, 0)
              ELSE IF competitions = {} THEN At("done", 0, 0)
              ELSE At("matches", 1, 0)
    /\ UNCHANGED <<rawFiles, force, bronzeAtStart, bronzeRuns, completedBefore, nonBronzeVars>>

ingest_matches ==
    /\ bpc.at = "matches"
    /\ Ingest(<<"matches", bpc.c>>)
    /\ bpc' = IF IngestOutcome(<<"matches", bpc.c>>) = "raise"
              THEN At("failed", bpc.c, 0)
              ELSE At("match_file", bpc.c, 0)
    /\ UNCHANGED <<rawFiles, force, bronzeAtStart, bronzeRuns, completedBefore, nonBronzeVars>>

\* run(): matches = json.loads(match_file.read_text()), read from the raw
\* directory whether or not ingest_matches skipped
load_match_ids ==
    /\ bpc.at = "match_file"
    /\ bpc' = IF rawFiles[<<"matches", bpc.c>>] = NoFile
              THEN At("failed", bpc.c, 0)
              ELSE At("events", bpc.c, 1)
    /\ UNCHANGED <<rawFiles, bronzeFiles, force, written, bronzeAtStart,
                   bronzeRuns, completedBefore, nonBronzeVars>>

ingest_events ==
    /\ bpc.at = "events"
    /\ LET mid == match_ids(bpc.c)[bpc.m] IN
       /\ Ingest(<<"events", mid>>)
       /\ bpc' = IF IngestOutcome(<<"events", mid>>) = "raise"
                 THEN At("failed", bpc.c, bpc.m)
                 ELSE At("lineups", bpc.c, bpc.m)
    /\ UNCHANGED <<rawFiles, force, bronzeAtStart, bronzeRuns, completedBefore, nonBronzeVars>>

ingest_lineups ==
    /\ bpc.at = "lineups"
    /\ LET mid == match_ids(bpc.c)[bpc.m] IN
       /\ to_parquet(<<"lineups", mid>>,
                     <<"parquet", DataFrame(lineup_rows(mid, rawFiles[<<"lineups", mid>>][2]))>>)
       /\ bpc' = IF IngestOutcome(<<"lineups", mid>>) = "raise"
                 THEN At("failed", bpc.c, bpc.m)
                 ELSE IF bpc.m < MaxMatches THEN At("events", bpc.c, bpc.m + 1)
                 ELSE IF bpc.c < MaxComps THEN At("matches", bpc.c + 1, 0)
                 ELSE At("done", 0, 0)
    /\ UNCHANGED <<rawFiles, force, bronzeAtStart, bronzeRuns, completedBefore, nonBronzeVars>>

RECURSIVE SubsetsUpTo(_, _)
SubsetsUpTo(S, k) ==
    IF k = 0 THEN {{}}
    ELSE LET smaller == SubsetsUpTo(S, k - 1)
         IN smaller \cup {T \cup {x} : T \in smaller, x \in S}

PositionName(k) ==
    IF k = 1 THEN "Goalkeeper" ELSE IF k = 2 THEN "Right Back" ELSE "Left Back"

\* the entries of a player's `positions` list
Intervals(n) ==
    [k \in 1 .. n |-> [position_id |-> Some(k), position |-> Some(PositionName(k)),
                       from |-> Some(k)]]

\* a player's `positions`: the key is absent, or a list of intervals
PositionLists == {Null} \cup {Some(Intervals(n)) : n \in 0 .. MaxIntervals}

\* a team's `lineup`: the key is absent, or players 1, 2, ... in order
Lineups ==
    {Null} \cup
    {Some([p \in 1 .. n |->
              [player_id |-> Some(p), player_name |-> Some("p"),
               jersey_number |-> Some(p), country |-> Null,
               positions |-> ps[p]]]) :
        n \in 0 .. MaxPlayers, ps \in [1 .. MaxPlayers -> PositionLists]}

\* lineups/<match_id>.json: the home and the away team
LineupDocs ==
    {<<[team_id |-> Some(1), team_name |-> Some("A"), lineup |-> a],
       [team_id |-> Some(2), team_name |-> Some("B"), lineup |-> b]>> :
        a \in Lineups, b \in Lineups}

SampleLineups ==
    <<[team_id |-> Some(1), team_name |-> Some("A"),
       lineup |-> Some(<<[player_id |-> Some(1), player_name |-> Some("p"),
                          jersey_number |-> Some(1),
                          country |-> Some([name |-> Some("Spain")]),
                          positions |-> Some(Intervals(1))]>>)],
      [team_id |-> Some(2), team_name |-> Some("B"), lineup |-> Some(<<>>)]>>

\* the document of a unit that is present
Document(u) == IF u[1] = "lineups" THEN <<"json", SampleLineups>> ELSE <<"json", <<>>>>

\* the raw directory: every unit's document, of which at most MaxMissing are absent
RawDirs ==
    {[u \in Units |-> IF u \in missing THEN NoFile ELSE Document(u)] :
        missing \in SubsetsUpTo(Units, MaxMissing)}

\* raw directories with every document present, the lineups of the first
\* match being any lineup document
LineupDirs ==
    {[u \in Units |-> IF u = <<"lineups", 1>> THEN <<"json", doc>> ELSE Document(u)] :
        doc \in LineupDocs}

\* bronze.run() not started, data/bronze empty
BronzeFresh ==
    /\ bronzeFiles = [u \in Units |-> NoFile]
    /\ bpc = At("idle", 0, 0)
    /\ force = FALSE
    /\ written = {}
    /\ bronzeAtStart = [u \in Units |-> NoFile]
    /\ bronzeRuns = 0
    /\ completedBefore = FALSE

\* the variables of the other programs, at rest
BronzeIdle ==
    /\ rawFiles = <<>> /\ bronzeFiles = <<>> /\ bronzeAtStart = <<>>
    /\ bpc = At("idle", 0, 0) /\ force = FALSE /\ written = {}
    /\ bronzeRuns = 0 /\ completedBefore = FALSE
UtilIdle == arg = <<"None">> /\ ret = <<"none">>
TrainIdle == trained = <<>>
MainIdle == main = <<>>
XtIdle == xt = <<>>
StoreIdle ==
    /\ bronze = <<>> /\ store = <<>> /\ xg_model_pkl = <<>>
    /\ pc = [prog |-> "none", at |-> "idle", err |-> "none"]
    /\ df_events = <<>> /\ replaced = {} /\ reapplied = FALSE

InitBronze ==
    /\ TrainIdle
    /\ MainIdle
    /\ XtIdle
    /\ UtilIdle
    /\ StoreIdle
    /\ rawFiles \in RawDirs
    /\ BronzeFresh

NextBronze ==
    \/ \E f \in BOOLEAN : bronze_run(f)
    \/ ingest_competitions
    \/ ingest_matches
    \/ load_match_ids
    \/ ingest_events
    \/ ingest_lineups

SpecBronze == InitBronze /\ [][NextBronze]_vars

InitLineups ==
    /\ TrainIdle
    /\ MainIdle
    /\ XtIdle
    /\ UtilIdle
    /\ StoreIdle
    /\ rawFiles \in LineupDirs
    /\ BronzeFresh

SpecLineups == InitLineups /\ [][NextBronze]_vars

-----------------------------------------------------------------------------
(* Claims about bronze ingestion *)

BronzeRunEnded == bpc.at \in {"done", "failed"}

\* C2: when the source record of one unit is missing (match A's events file),
\* that unit fails but every sibling unit whose source exists is still
\* ingested in the same run.
C2_SiblingsStillIngested ==
    (/\ BronzeRunEnded
     /\ \A u \in Units : rawFiles[u] = NoFile => u[1] = "events")
    => \A u \in Units : rawFiles[u] # NoFile => bronzeFiles[u] # NoFile

\* C3: once a bronze.run() has completed, a later run(force=False) on the
\* unchanged source writes no artifact, leaves data/bronze as it found it,
\* and returns normally.
C3_SecondRunRewritesNothing ==
    (completedBefore /\ ~force /\ bpc.at # "idle")
    => /\ written = {}
       /\ bronzeFiles = bronzeAtStart
       /\ bpc.at # "failed"

C3_Witness ==
    /\ completedBefore /\ ~force /\ bpc.at = "done"
    /\ bronzeRuns = 2
    /\ \A u \in Units : bronzeFiles[u] # NoFile

-----------------------------------------------------------------------------
(* Location unpacking: pipeline/utils.py *)

\* float(v) of a number: the same number (coordinates are modelled as integers)
float(e) == Some(e[1])

\* A location value as bronze holds it: <<"None">>, <<"nan">> (a float NaN),
\* <<"list", elems>> or <<"ndarray", elems>>, each element Null or Some(n).
\* A pandas Series of such values is <<"Series", values>>.
\* the inner function extract(v) of unpack_location
extract(v) ==
    IF v[1] = "None" THEN <<Null, Null, Null>>
    ELSE IF v[1] = "nan" THEN <<Null, Null, Null>>
    ELSE IF v[1] \in {"list", "ndarray"}
    THEN LET arr == v[2] IN
         <<IF Len(arr) > 0 /\ arr[1] # Null THEN float(arr[1]) ELSE Null,
           IF Len(arr) > 1 /\ arr[2] # Null THEN float(arr[2]) ELSE Null,
           IF Len(arr) > 2 /\ arr[3] # Null THEN float(arr[3]) ELSE Null>>
    ELSE <<Null, Null, Null>>

\* result = result.drop(columns=[prefix_z]) when result[prefix_z].isna().all()
DropNullZ(unpacked, prefix) ==
    IF \A i \in 1 .. Len(unpacked) : unpacked[i][3] = Null
    THEN [columns |-> <<prefix \o "_x", prefix \o "_y">>,
          rows |-> [i \in 1 .. Len(unpacked) |-> <<unpacked[i][1], unpacked[i][2]>>]]
    ELSE [columns |-> <<prefix \o "_x", prefix \o "_y", prefix \o "_z">>,
          rows |-> unpacked]

\* unpack_location(series, prefix): series.apply(extract) needs a Series; any
\* other argument (a list, an ndarray, None, a float) has no attribute
\* `apply`, and the call raises AttributeError.
unpack_location(series, prefix) ==
    IF series[1] # "Series" THEN [raise |-> "AttributeError"]
    ELSE LET values == series[2]
             unpacked == [i \in 1 .. Len(values) |-> extract(values[i])]
         IN DropNullZ(unpacked, prefix)

\* the call unpack_location(a)
call_unpack_location ==
    /\ ret = <<"none">>
    /\ ret' = <<"returned", unpack_location(arg, "location")>>
    /\ UNCHANGED <<arg, nonUtilVars>>

Coord == {Null} \cup {Some(n) : n \in 1 .. MaxCoord}

RECURSIVE SeqsUpTo(_, _)
SeqsUpTo(S, n) ==
    IF n = 0 THEN {<<>>}
    ELSE LET shorter == SeqsUpTo(S, n - 1)
         IN shorter \cup {Append(q, x) : q \in {r \in shorter : Len(r) = n - 1}, x \in S}

\* one location value: None, NaN, or a list / ndarray of up to 3 coordinates
ListValues == {<<"None">>, <<"nan">>} \cup {<<"list", elems>> : elems \in SeqsUpTo(Coord, 3)}
LocationValues == ListValues \cup {<<"ndarray", elems>> : elems \in SeqsUpTo(Coord, 3)}

IsSeriesArg(a) == Len(a) = 2 /\ a[1] = "Series"

InitUnpack ==
    /\ TrainIdle
    /\ MainIdle
    /\ XtIdle
    /\ BronzeIdle
    /\ StoreIdle
    /\ \/ arg \in LocationValues
       \/ \E values \in SeqsUpTo(ListValues, MaxSeries) : arg = <<"Series", values>>
    /\ ret = <<"none">>

NextUnpack == call_unpack_location

SpecUnpack == InitUnpack /\ [][NextUnpack]_vars

-----------------------------------------------------------------------------
(* Claims about location unpacking *)

\* the pair the claim gives for one location value
ExpectedPair(v) ==
    IF v[1] \in {"None", "nan"} THEN <<Null, Null>>
    ELSE <<IF Len(v[2]) > 0 THEN v[2][1] ELSE Null,
           IF Len(v[2]) > 1 THEN v[2][2] ELSE Null>>

\* C9: unpack_location applied to one location value returns the pair (x, y):
\* [x, y] gives (x, y); None, NaN or [] gives (None, None); [x] gives
\* (x, None); a 3-element list loses its third element.  The value is passed
\* as the tests pass it (bare) or as silver passes it (the one value of a
\* Series, the pair being the row returned for it).
C9_UnpackReturnsPair ==
    ret[1] = "returned"
    => IF IsSeriesArg(arg)
       THEN Len(arg[2]) = 1 => ret[2].rows[1] = ExpectedPair(arg[2][1])
       ELSE /\ "raise" \notin DOMAIN ret[2]
            /\ ret[2].rows[1] = ExpectedPair(arg)

-----------------------------------------------------------------------------
(* Silver construction: pipeline/silver.py *)

\* a table that does not exist
NoTable == [writer |-> "none", columns |-> {}, rows |-> <<>>]

SilverTables ==
    {"dim_competition", "dim_match", "dim_team", "dim_player", "fact_events",
     "fact_passes", "fact_shots", "fact_carries", "fact_lineups",
     "bridge_shot_freeze_frame"}

\* the bronze layer each builder reads
LayerOf ==
    [dim_competition |-> "competitions", dim_match |-> "matches",
     dim_team |-> "matches", dim_player |-> "lineups", fact_events |-> "events",
     fact_passes |-> "events", fact_shots |-> "events", fact_carries |-> "events",
     fact_lineups |-> "lineups", bridge_shot_freeze_frame |-> "events"]

Layers == {"competitions", "matches", "lineups", "events"}

\* the columns each builder indexes directly: df["name"] or df[[...]], a
\* KeyError when the column is absent
Direct ==
    [dim_competition |-> {"competition_id", "season_id", "competition_name",
                          "season_name", "country_name"},
     dim_match |-> {"match_id", "match_date", "home_score", "away_score", "match_week"},
     dim_team |-> {},
     dim_player |-> {"player_id", "player_name"},
     fact_events |-> {"location", "id", "match_id", "index", "period", "timestamp",
                      "minute", "second"},
     fact_passes |-> {"type", "location", "id", "match_id", "period", "minute", "second"},
     fact_shots |-> {"type", "location", "id", "match_id", "period", "minute", "second"},
     fact_carries |-> {"type", "location", "id", "match_id", "period", "minute", "second"},
     fact_lineups |-> {"match_id", "player_id", "player_name"},
     bridge_shot_freeze_frame |-> {"type"}]

\* the columns each builder reads through _col(df, name)
ViaCol ==
    [dim_competition |-> {},
     dim_match |-> {"competition_id", "season_id", "kick_off", "home_team", "away_team",
                    "stadium", "referee", "competition_stage"},
     dim_team |-> {"home_team", "away_team"},
     dim_player |-> {"country"},
     fact_events |-> {"type", "player_id", "player", "team_id", "team", "duration",
                      "under_pressure", "out", "play_pattern", "possession",
                      "possession_team_id", "position"},
     fact_passes |-> {"player_id", "team_id", "pass_end_location", "pass_length",
                      "pass_angle", "pass_height", "pass_body_part", "pass_outcome",
                      "pass_type", "pass_technique", "pass_recipient_id", "pass_cross",
                      "pass_switch", "pass_through_ball", "pass_shot_assist",
                      "pass_goal_assist", "under_pressure"},
     fact_shots |-> {"player_id", "team_id", "shot_end_location", "shot_statsbomb_xg",
                     "shot_outcome", "shot_body_part", "shot_technique", "shot_type",
                     "shot_first_time", "shot_key_pass_id", "under_pressure"},
     fact_carries |-> {"player_id", "team_id", "carry_end_location", "duration",
                       "under_pressure"},
     fact_lineups |-> {"team_id", "team_name", "jersey_number", "position"},
     bridge_shot_freeze_frame |-> {"shot_freeze_frame"}]

\* every column some builder reads from a layer
LayerColumns(layer) ==
    UNION {Direct[t] \cup ViaCol[t] : t \in {u \in SilverTables : LayerOf[u] = layer}}

\* what can be wrong with data/bronze: a layer without parquet files, or a
\* column that no file of the layer has
Defects ==
    {<<"none">>}
    \cup {<<"nofiles", l>> : l \in Layers}
    \cup UNION {{<<"nocolumn", l, c>> : c \in LayerColumns(l)} : l \in Layers}

Range(q) == {q[i] : i \in 1 .. Len(q)}

Raise(e) == [raise |-> e]
Raised(x) == "raise" \in DOMAIN x

\* _read_bronze(layer) on data/bronze b, after _normalise_matches /
\* _normalise_events: FileNotFoundError without files; match_id is added to
\* events and lineups frames that lack it.
_read_bronze(b, layer) ==
    IF b.defect = <<"nofiles", layer>> THEN Raise("FileNotFoundError")
    ELSE LET absent == IF b.defect[1] = "nocolumn" /\ b.defect[2] = layer
                       THEN {b.defect[3]} ELSE {}
             added == IF layer \in {"events", "lineups"} THEN {"match_id"} ELSE {}
         IN [columns |-> (LayerColumns(layer) \ absent) \cup added,
             rows |-> b[layer]]

\* df[name] for every name in names raises KeyError when one is absent
KeyErrorIn(df, names) == names \ df.columns # {}

\* df[name], the column as a sequence
Column(df, name) == [i \in 1 .. Len(df.rows) |-> df.rows[i][name]]

\* _col(df, name): the column if it exists, else a null Series of the same length
_col(df, name) ==
    IF name \notin df.columns
    THEN [i \in 1 .. Len(df.rows) |-> Null]
    ELSE Column(df, name)

\* the rows of a frame at the row numbers I, in frame order
Pick(rows, I) ==
    LET f[i \in 0 .. Len(rows)] ==
            IF i = 0 THEN <<>>
            ELSE IF i \in I THEN Append(f[i - 1], rows[i]) ELSE f[i - 1]
    IN f[Len(rows)]

\* drop_duplicates(subset=[name]): the first row of each value is kept
drop_duplicates(rows, name) ==
    Pick(rows, {i \in 1 .. Len(rows) :
                  \A j \in 1 .. (i - 1) : rows[j][name] # rows[i][name]})

\* drop_duplicates(): the first of the rows equal in every column is kept
drop_duplicate_rows(rows) ==
    Pick(rows, {i \in 1 .. Len(rows) : \A j \in 1 .. (i - 1) : rows[j] # rows[i]})

\* df[[names]] on the rows
Project(rows, names) ==
    [i \in 1 .. Len(rows) |-> [c \in names |-> rows[i][c]]]

\* the team names of the model, in sort_values() order
NameOrder == <<"A", "B">>

\* a value pd.to_numeric cannot parse
Unparseable == <<"str", "?">>

\* pd.to_numeric(series, errors="coerce") on one value
to_numericMut(v) == Null
to_numeric(v) == IF Len(v) = 1 THEN v ELSE Null

\* _int_col on one value: to_numeric(...).astype("Int64")
_int_col(v) == to_numeric(v)

\* Series.isna() on one value
isnaMut(v) == v # Null
isna(v) == v = Null

\* df[df["type"] == name].copy().reset_index(drop=True)
OfTypeMut(df, name) == df
OfType(df, name) ==
    [columns |-> df.columns,
     rows |-> SelectSeq(df.rows, LAMBDA r : r.type = Some(name))]

\* unpack_location(df["location"]) inside the fact builders
Loc(df) == unpack_location(<<"Series", Column(df, "location")>>, "location")

\* unpack_location(_col(df, name), prefix="end_location") inside the fact
\* builders; a column the frame lacks is a Series of None
EndLoc(df, name) ==
    LET values == _col(df, name) IN
    unpack_location(<<"Series", [i \in 1 .. Len(values) |->
                                    IF values[i] = Null THEN <<"None">> ELSE values[i]]>>,
                    "end_location")

\* build_dim_competition .. build_dim_player, build_fact_lineups: the frame
\* handed to _drop_create, or the exception raised before it
build_dim_competition(b) ==
    LET df == _read_bronze(b, "competitions") IN
    IF Raised(df) THEN df
    ELSE IF KeyErrorIn(df, Direct["dim_competition"]) THEN Raise("KeyError")
    ELSE [columns |-> Direct["dim_competition"],
          rows |-> drop_duplicate_rows(Project(df.rows, Direct["dim_competition"]))]

build_dim_match(b) ==
    LET df == _read_bronze(b, "matches") IN
    IF Raised(df) THEN df
    ELSE IF KeyErrorIn(df, Direct["dim_match"]) THEN Raise("KeyError")
    ELSE [columns |-> {"match_id", "competition_id", "season_id", "match_date",
                       "kick_off", "home_team", "away_team", "home_score",
                       "away_score", "stadium", "referee", "stage", "match_week"},
          rows |-> drop_duplicates(
                       [i \in 1 .. Len(df.rows) |->
                           [match_id |-> df.rows[i].match_id,
                            home_team |-> _col(df, "home_team")[i],
                            away_team |-> _col(df, "away_team")[i]]],
                       "match_id")]

build_dim_team(b) ==
    LET df == _read_bronze(b, "matches") IN
    IF Raised(df) THEN df
    ELSE LET home == _col(df, "home_team")
             away == _col(df, "away_team")
             \* pd.concat([home, away]).unique(), then dropna().sort_values()
             teams == SelectSeq(NameOrder,
                                LAMBDA n : Some(n) \in Range(home) \cup Range(away))
         IN [columns |-> {"team_name", "team_id"},
             rows |-> [k \in 1 .. Len(teams) |->
                          [team_name |-> Some(teams[k]), team_id |-> Some(k)]]]

build_dim_player(b) ==
    LET df == _read_bronze(b, "lineups") IN
    IF Raised(df) THEN df
    ELSE IF KeyErrorIn(df, Direct["dim_player"]) THEN Raise("KeyError")
    ELSE LET out == drop_duplicates(df.rows, "player_id")
             country == _col(df, "country")
             \* out["country"] = ...: aligned on the index of the rows kept
             kept == SelectSeq([i \in 1 .. Len(df.rows) |-> i],
                               LAMBDA i : \A j \in 1 .. (i - 1) :
                                   df.rows[j].player_id # df.rows[i].player_id)
         IN [columns |-> {"player_id", "player_name", "country"},
             rows |-> [k \in 1 .. Len(out) |->
                          [player_id |-> out[k].player_id,
                           player_name |-> out[k].player_name,
                           country |-> country[kept[k]]]]]

build_fact_lineups(b) ==
    LET df == _read_bronze(b, "lineups") IN
    IF Raised(df) THEN df
    ELSE IF KeyErrorIn(df, Direct["fact_lineups"]) THEN Raise("KeyError")
    ELSE [columns |-> {"match_id", "team_id", "team_name", "player_id",
                       "player_name", "jersey_number", "position", "is_starter"},
          rows |-> [i \in 1 .. Len(df.rows) |->
                       [match_id |-> df.rows[i].match_id,
                        team_id |-> _int_col(_col(df, "team_id")[i]),
                        team_name |-> _col(df, "team_name")[i],
                        player_id |-> _int_col(df.rows[i].player_id),
                        player_name |-> df.rows[i].player_name,
                        jersey_number |-> _int_col(_col(df, "jersey_number")[i]),
                        position |-> _col(df, "position")[i],
                        is_starter |-> ~isna(_col(df, "position")[i])]]]

\* the fact builders, on the events frame df read by run(); of the output
\* columns, those that the gold layer and the model steps read are modelled
build_fact_events(df) ==
    IF KeyErrorIn(df, Direct["fact_events"]) THEN Raise("KeyError")
    ELSE LET loc == Loc(df)
             type == _col(df, "type")
             player_id == _col(df, "player_id")
             team_id == _col(df, "team_id")
             team == _col(df, "team")
             player == _col(df, "player")
         IN [columns |-> {"event_id", "match_id", "period", "minute", "second", "type",
                          "player_id", "player", "team_id", "team", "location_x",
                          "location_y"},
             rows |-> [i \in 1 .. Len(df.rows) |->
                 [event_id |-> df.rows[i].id,
                  match_id |-> df.rows[i].match_id,
                  period |-> _int_col(df.rows[i].period),
                  minute |-> _int_col(df.rows[i].minute),
                  second |-> _int_col(df.rows[i].second),
                  type |-> type[i],
                  player_id |-> _int_col(player_id[i]),
                  player |-> player[i],
                  team_id |-> _int_col(team_id[i]),
                  team |-> team[i],
                  location_x |-> loc.rows[i][1],
                  location_y |-> loc.rows[i][2]]]]

build_fact_passes(df) ==
    IF KeyErrorIn(df, Direct["fact_passes"]) THEN Raise("KeyError")
    ELSE LET passes == OfType(df, "Pass")
             loc == Loc(passes)
             player_id == _col(passes, "player_id")
             team_id == _col(passes, "team_id")
             pass_outcome == _col(passes, "pass_outcome")
             pass_recipient_id == _col(passes, "pass_recipient_id")
             end_loc == EndLoc(passes, "pass_end_location")
             pass_type == _col(passes, "pass_type")
         IN [columns |-> {"event_id", "match_id", "player_id", "team_id", "period",
                          "minute", "second", "location_x", "location_y",
                          "end_location_x", "end_location_y", "outcome",
                          "is_completed", "pass_type", "recipient_id"},
             rows |-> [i \in 1 .. Len(passes.rows) |->
                 [event_id |-> passes.rows[i].id,
                  match_id |-> passes.rows[i].match_id,
                  player_id |-> _int_col(player_id[i]),
                  team_id |-> _int_col(team_id[i]),
                  period |-> _int_col(passes.rows[i].period),
                  minute |-> _int_col(passes.rows[i].minute),
                  second |-> _int_col(passes.rows[i].second),
                  location_x |-> loc.rows[i][1],
                  location_y |-> loc.rows[i][2],
                  end_location_x |-> end_loc.rows[i][1],
                  end_location_y |-> end_loc.rows[i][2],
                  outcome |-> pass_outcome[i],
                  is_completed |-> isna(pass_outcome[i]),
                  pass_type |-> pass_type[i],
                  recipient_id |-> _int_col(pass_recipient_id[i])]]]

build_fact_shots(df) ==
    IF KeyErrorIn(df, Direct["fact_shots"]) THEN Raise("KeyError")
    ELSE LET shots == OfType(df, "Shot")
             loc == Loc(shots)
             player_id == _col(shots, "player_id")
             team_id == _col(shots, "team_id")
             shot_statsbomb_xg == _col(shots, "shot_statsbomb_xg")
             shot_outcome == _col(shots, "shot_outcome")
             shot_type == _col(shots, "shot_type")
         IN [columns |-> {"event_id", "match_id", "player_id", "team_id", "period",
                          "minute", "second", "location_x", "location_y", "xg",
                          "outcome", "is_goal", "shot_type"},
             rows |-> [i \in 1 .. Len(shots.rows) |->
                 [event_id |-> shots.rows[i].id,
                  match_id |-> shots.rows[i].match_id,
                  player_id |-> _int_col(player_id[i]),
                  team_id |-> _int_col(team_id[i]),
                  period |-> _int_col(shots.rows[i].period),
                  minute |-> _int_col(shots.rows[i].minute),
                  second |-> _int_col(shots.rows[i].second),
                  location_x |-> loc.rows[i][1],
                  location_y |-> loc.rows[i][2],
                  xg |-> to_numeric(shot_statsbomb_xg[i]),
                  outcome |-> shot_outcome[i],
                  is_goal |-> (shot_outcome[i] = Some("Goal")),
                  shot_type |-> shot_type[i]]]]

build_fact_carries(df) ==
    IF KeyErrorIn(df, Direct["fact_carries"]) THEN Raise("KeyError")
    ELSE LET carries == OfType(df, "Carry")
             loc == Loc(carries)
             player_id == _col(carries, "player_id")
             team_id == _col(carries, "team_id")
             end_loc == EndLoc(carries, "carry_end_location")
         IN [columns |-> {"event_id", "match_id", "player_id", "team_id", "period",
                          "minute", "second", "location_x", "location_y",
                          "end_location_x", "end_location_y"},
             rows |-> [i \in 1 .. Len(carries.rows) |->
                 [event_id |-> carries.rows[i].id,
                  match_id |-> carries.rows[i].match_id,
                  player_id |-> _int_col(player_id[i]),
                  team_id |-> _int_col(team_id[i]),
                  period |-> _int_col(carries.rows[i].period),
                  minute |-> _int_col(carries.rows[i].minute),
                  second |-> _int_col(carries.rows[i].second),
                  location_x |-> loc.rows[i][1],
                  location_y |-> loc.rows[i][2],
                  end_location_x |-> end_loc.rows[i][1],
                  end_location_y |-> end_loc.rows[i][2]]]]

\* build_bridge_shot_freeze_frame: the events of the model carry no freeze
\* frame, so `rows` is empty and the empty table is created
build_bridge_shot_freeze_frame(df) ==
    IF KeyErrorIn(df, Direct["bridge_shot_freeze_frame"]) THEN Raise("KeyError")
    ELSE [columns |-> {"event_id", "match_id", "player_id", "player_name",
                       "position", "location_x", "location_y", "is_teammate"},
          rows |-> <<>>]

GoldTables ==
    {"gold_xg_timeline", "gold_pass_network_nodes", "gold_pass_network_edges",
     "gold_shot_map", "gold_formation_positions", "gold_team_stats"}

PpdaTables == {"gold_ppda_match", "gold_ppda_team"}

\* the tables xt_model.py save_results() creates
XtTables == {"gold_xt_grid", "gold_xt_player"}

AllTables == SilverTables \cup GoldTables \cup PpdaTables \cup XtTables

EmptyStore == [t \in AllTables |-> NoTable]

\* the table CREATE TABLE ... AS SELECT * FROM df leaves, written by program w
TableOf(w, df) == [writer |-> w, columns |-> df.columns, rows |-> df.rows]

\* _drop_create(con, table, df): DROP TABLE IF EXISTS, then CREATE TABLE AS
_drop_create(table, df) ==
    /\ store' = [store EXCEPT ![table] = TableOf(pc.prog, df)]
    /\ replaced' = replaced \cup {table}

Running(prog, at) == pc.prog = prog /\ pc.at = at
Goto(prog, at) == pc' = [prog |-> prog, at |-> at, err |-> "none"]
FailMut(prog, e) == pc' = [prog |-> prog, at |-> "fact_lineups", err |-> e]
Fail(prog, e) == pc' = [prog |-> prog, at |-> "failed", err |-> e]
NoProgram == pc.at \in {"idle", "done", "failed"}

\* a program opens the store: get_db_connection(read_only=False)
Begin(prog, at) ==
    /\ NoProgram
    /\ Goto(prog, at)
    /\ replaced' = {}

\* one builder call of silver.run(): the builder raises and the exception
\* leaves run() through `finally: con.close()`, or the table is replaced
SilverBuild(table, out, next) ==
    /\ Running("silver", table)
    /\ IF Raised(out)
       THEN Fail("silver", out.raise) /\ UNCHANGED <<store, replaced>>
       ELSE _drop_create(table, out) /\ Goto("silver", next)
    /\ UNCHANGED <<bronze, df_events, xg_model_pkl, reapplied, nonStoreVars>>

silver_run ==
    /\ Begin("silver", "dim_competition")
    /\ df_events' = <<>>
    /\ UNCHANGED <<bronze, store, xg_model_pkl, reapplied, nonStoreVars>>

silver_dim_competition ==
    SilverBuild("dim_competition", build_dim_competition(bronze), "dim_match")

silver_dim_match == SilverBuild("dim_match", build_dim_match(bronze), "dim_team")

silver_dim_team == SilverBuild("dim_team", build_dim_team(bronze), "dim_player")

silver_dim_player == SilverBuild("dim_player", build_dim_player(bronze), "read_events")

\* run(): df_events = _read_bronze("events")
silver_read_events ==
    /\ Running("silver", "read_events")
    /\ LET df == _read_bronze(bronze, "events") IN
       IF Raised(df)
       THEN Fail("silver", df.raise) /\ UNCHANGED df_events
       ELSE df_events' = df /\ Goto("silver", "fact_events")
    /\ UNCHANGED <<bronze, store, replaced, xg_model_pkl, reapplied, nonStoreVars>>

silver_fact_events ==
    SilverBuild("fact_events", build_fact_events(df_events), "fact_passes")

silver_fact_passes ==
    SilverBuild("fact_passes", build_fact_passes(df_events), "fact_shots")

silver_fact_shots ==
    SilverBuild("fact_shots", build_fact_shots(df_events), "fact_carries")

silver_fact_carries ==
    SilverBuild("fact_carries", build_fact_carries(df_events), "fact_lineups")

silver_fact_lineups ==
    SilverBuild("fact_lineups", build_fact_lineups(bronze), "bridge_shot_freeze_frame")

silver_bridge_shot_freeze_frame ==
    SilverBuild("bridge_shot_freeze_frame",
                build_bridge_shot_freeze_frame(df_events), "done")

SilverStep ==
    \/ silver_dim_competition
    \/ silver_dim_match
    \/ silver_dim_team
    \/ silver_dim_player
    \/ silver_read_events
    \/ silver_fact_events
    \/ silver_fact_passes
    \/ silver_fact_shots
    \/ silver_fact_carries
    \/ silver_fact_lineups
    \/ silver_bridge_shot_freeze_frame

\* what a completed silver.run() leaves in an empty store, from bronze b
\* that has no defect
StoreAfterSilver(b) ==
    LET df == _read_bronze(b, "events")
        out == [dim_competition |-> build_dim_competition(b),
                dim_match |-> build_dim_match(b),
                dim_team |-> build_dim_team(b),
                dim_player |-> build_dim_player(b),
                fact_events |-> build_fact_events(df),
                fact_passes |-> build_fact_passes(df),
                fact_shots |-> build_fact_shots(df),
                fact_carries |-> build_fact_carries(df),
                fact_lineups |-> build_fact_lineups(b),
                bridge_shot_freeze_frame |-> build_bridge_shot_freeze_frame(df)]
    IN [t \in AllTables |->
           IF t \in SilverTables THEN TableOf("silver", out[t]) ELSE NoTable]

\* event rows of the bronze events layer (one match, teams A and B)
EvBase ==
    [id |-> Null, match_id |-> Some(1), type |-> Null, team |-> Some("A"),
     team_id |-> Some(1), player_id |-> Some(1), player |-> Some("p1"),
     location |-> <<"None">>,
     period |-> Some(1), minute |-> Some(1), second |-> Some(0),
     pass_outcome |-> Null, pass_recipient_id |-> Null, shot_outcome |-> Null,
     shot_statsbomb_xg |-> Null, shot_type |-> Null,
     pass_end_location |-> <<"None">>, pass_type |-> Null,
     carry_end_location |-> <<"None">>]

At12 == <<"ndarray", <<Some(1), Some(2)>>>>

EventPool ==
    {[EvBase EXCEPT !.type = Some("Pass"), !.location = At12,
                    !.pass_recipient_id = Some(2)],
     [EvBase EXCEPT !.type = Some("Pass"), !.location = At12,
                    !.pass_outcome = Some("Incomplete")],
     [EvBase EXCEPT !.type = Some("Shot"), !.location = At12,
                    !.shot_outcome = Some("Goal"), !.shot_statsbomb_xg = Some(45),
                    !.shot_type = Some("Open Play")],
     [EvBase EXCEPT !.type = Some("Shot"), !.location = At12,
                    !.shot_outcome = Some("Saved"), !.shot_statsbomb_xg = Some(78),
                    !.shot_type = Some("Penalty")],
     [EvBase EXCEPT !.type = Some("Shot"), !.team = Some("B"), !.team_id = Some(2),
                    !.shot_outcome = Some("Off T"), !.shot_type = Some("Open Play")],
     [EvBase EXCEPT !.type = Some("Shot"), !.team = Some("B"), !.team_id = Some(2),
                    !.shot_outcome = Some("Goal"), !.shot_type = Some("Penalty")],
     [EvBase EXCEPT !.type = Some("Carry"), !.location = At12],
     [EvBase EXCEPT !.type = Some("Pressure"), !.team = Some("B"),
                    !.team_id = Some(2), !.location = At12]}

\* the events frame: row i carries the event id i
WithIds(rows) == [i \in 1 .. Len(rows) |-> [rows[i] EXCEPT !.id = Some(i)]]

EventFrames == {WithIds(q) : q \in SeqsUpTo(EventPool, MaxEvents)}

SampleEvents ==
    WithIds(<<[EvBase EXCEPT !.type = Some("Pass"), !.location = At12,
                             !.pass_recipient_id = Some(2)],
              [EvBase EXCEPT !.type = Some("Shot"), !.location = At12,
                             !.shot_outcome = Some("Goal"),
                             !.shot_statsbomb_xg = Some(45),
                             !.shot_type = Some("Open Play")]>>)

\* the matches layer: one match, A at home to B
Matches ==
    <<[match_id |-> Some(1), home_team |-> Some("A"), away_team |-> Some("B")]>>

\* the competitions layer: one competition and season
Competitions ==
    <<[competition_id |-> Some(1), season_id |-> Some(1),
       competition_name |-> Some("La Liga"), season_name |-> Some("2020/2021"),
       country_name |-> Some("Spain")]>>

\* the lineups layer: the artifact ingest_lineups makes of the sample document
LineupsLayer == DataFrame(lineup_rows(1, SampleLineups)).rows

\* data/bronze with defect d and the events frame ev
BronzeOf(d, ev) ==
    [defect |-> d, competitions |-> Competitions, matches |-> Matches,
     lineups |-> LineupsLayer, events |-> ev]

\* the StatsBomb team ids of the two teams, as the events carry them
TeamIdMaps == {[A |-> 1, B |-> 2], [A |-> 2, B |-> 1]}

WithTeamIds(rows, ids) ==
    [i \in 1 .. Len(rows) |-> [rows[i] EXCEPT !.team_id = Some(ids[rows[i].team[1]])]]

\* rows of competitions.json: a competition and season, the same pair under
\* another competition name, another season
CompetitionPool ==
    {Competitions[1],
     [Competitions[1] EXCEPT !.competition_name = Some("LaLiga")],
     [Competitions[1] EXCEPT !.season_id = Some(2), !.season_name = Some("2021/2022")]}

\* data/bronze as a silver run can find it: any event frame without defect,
\* the sample frame with one defect, or with any competitions frame
SilverInputs ==
    {BronzeOf(<<"none">>, WithTeamIds(ev, ids)) :
        ev \in EventFrames, ids \in TeamIdMaps}
    \cup {BronzeOf(d, SampleEvents) : d \in Defects}
    \cup {[BronzeOf(<<"none">>, SampleEvents) EXCEPT !.competitions = c] :
             c \in SeqsUpTo(CompetitionPool, MaxCompRows)}

InitSilver ==
    /\ TrainIdle
    /\ MainIdle
    /\ XtIdle
    /\ BronzeIdle
    /\ UtilIdle
    /\ bronze \in SilverInputs
    /\ store \in {EmptyStore,
                  StoreAfterSilver(BronzeOf(<<"none">>, SampleEvents))}
    /\ pc = [prog |-> "none", at |-> "idle", err |-> "none"]
    /\ df_events = <<>>
    /\ replaced = {}
    /\ xg_model_pkl = <<>>
    /\ reapplied = FALSE

NextSilver == silver_run \/ SilverStep

SpecSilver == InitSilver /\ [][NextSilver]_vars

-----------------------------------------------------------------------------
(* Claims about the silver stage *)

\* C1: if a Silver or Gold build raises part-way, the store is left exactly
\* as it was before the stage started: no table has been dropped or replaced.
C1_FailedStageChangesNothing ==
    (pc.prog \in {"silver", "gold"} /\ pc.at = "failed") => replaced = {}

\* C8: Silver construction never fails with a missing-key error because a
\* source column is absent from bronze; the absent column reads as a null
\* column and the run goes on.
C8_AbsentColumnNeverFails ==
    (pc.prog = "silver" /\ bronze.defect[1] = "nocolumn")
    => (pc.at # "failed" /\ pc.err # "KeyError")

\* C10: for every row of fact_passes, is_completed is true exactly when the
\* pass's outcome is null.
C10_CompletedIffNoOutcome ==
    \A i \in 1 .. Len(store["fact_passes"].rows) :
        LET p == store["fact_passes"].rows[i]
        IN p.is_completed = (p.outcome = Null)

C10_Witness ==
    /\ "fact_passes" \in replaced
    /\ \E i, j \in 1 .. Len(store["fact_passes"].rows) :
          /\ store["fact_passes"].rows[i].is_completed
          /\ store["fact_passes"].rows[i].outcome = Null
          /\ ~store["fact_passes"].rows[j].is_completed
          /\ store["fact_passes"].rows[j].outcome = Some("Incomplete")

-----------------------------------------------------------------------------
(* Gold aggregation: pipeline/gold.py *)

Exists(st, t) == st[t].writer # "none"

\* SQL `a = b`: never true of a NULL
SqlEq(a, b) == a # Null /\ b # Null /\ a = b

\* the rows of a result set, in the order the engine happens to produce
RECURSIVE SeqOfSet(_)
SeqOfSet(S) ==
    IF S = {} THEN <<>>
    ELSE LET x == CHOOSE y \in S : TRUE IN <<x>> \o SeqOfSet(S \ {x})

RECURSIVE SumOver(_, _)
SumOver(S, f) ==
    IF S = {} THEN 0
    ELSE LET x == CHOOSE y \in S : TRUE IN f[x] + SumOver(S \ {x}, f)

\* SUM(col) over the rows I of q: NULLs are skipped, NULL when all are NULL
SqlSum(q, I, col) ==
    LET J == {i \in I : q[i][col] # Null}
    IN IF J = {} THEN Null ELSE Some(SumOver(J, [i \in J |-> q[i][col][1]]))

\* ROUND(n / d) of non-negative integers, half up
RoundDiv(n, d) == (2 * n + d) \div (2 * d)

\* the tables each gold builder selects from
GoldSources ==
    [gold_xg_timeline |-> {"fact_shots", "fact_events"},
     gold_pass_network_nodes |-> {"fact_passes", "fact_events"},
     gold_pass_network_edges |-> {"fact_passes", "fact_events"},
     gold_shot_map |-> {"fact_shots", "fact_events"},
     gold_formation_positions |-> {"fact_passes", "fact_carries", "fact_events",
                                   "fact_lineups"},
     gold_team_stats |-> {"fact_shots", "fact_events", "fact_passes", "fact_carries"}]

\* SELECT DISTINCT match_id, team_id, team FROM fact_events
TeamsOfEvents(st) ==
    {<<r.match_id, r.team_id, r.team>> : r \in Range(st["fact_events"].rows)}

\* the e.team values LEFT JOINed to a row with (match_id, team_id): the
\* matching names, or one NULL when none matches
JoinedTeams(st, match_id, team_id) ==
    LET m == {t \in TeamsOfEvents(st) : SqlEq(match_id, t[1]) /\ SqlEq(team_id, t[2])}
    IN IF m = {} THEN {Null} ELSE {t[3] : t \in m}

\* FROM fact_shots s LEFT JOIN ... e GROUP BY s.match_id, s.team_id, e.team:
\* the groups of build_gold_team_stats
TeamStatsGroupsMut(st) == TeamsOfEvents(st)
TeamStatsGroups(st) ==
    LET s == st["fact_shots"].rows IN
    UNION {{<<s[i].match_id, s[i].team_id, tn>> :
              tn \in JoinedTeams(st, s[i].match_id, s[i].team_id)} :
           i \in 1 .. Len(s)}

\* the SELECT of build_gold_team_stats on store st
build_gold_team_stats(st) ==
    LET s == st["fact_shots"].rows
        p == st["fact_passes"].rows
        c == st["fact_carries"].rows
        ev == st["fact_events"].rows
        groups == TeamStatsGroups(st)
        members(g) == {i \in 1 .. Len(s) :
                         /\ s[i].match_id = g[1] /\ s[i].team_id = g[2]
                         /\ g[3] \in JoinedTeams(st, s[i].match_id, s[i].team_id)}
        of(q, g) == {j \in 1 .. Len(q) :
                       SqlEq(q[j].match_id, g[1]) /\ SqlEq(q[j].team_id, g[2])}
        row(g) ==
            [match_id |-> g[1],
             team_id |-> g[2],
             team_name |-> g[3],
             total_shots |-> Cardinality(members(g)),
             shots_on_target |->
                 Cardinality({i \in members(g) :
                                s[i].outcome \in {Some("Saved"), Some("Goal")}}),
             goals |-> Cardinality({i \in members(g) : s[i].is_goal}),
             total_xg |-> SqlSum(s, members(g), "xg"),
             total_passes |-> Cardinality(of(p, g)),
             pass_completion_pct |->
                 IF of(p, g) = {} THEN Null
                 ELSE Some(RoundDiv(1000 * Cardinality({j \in of(p, g) : p[j].is_completed}),
                                    Cardinality(of(p, g)))),
             total_carries |-> Cardinality(of(c, g)),
             total_pressures |->
                 Cardinality({j \in of(ev, g) : ev[j].type = Some("Pressure")})]
    IN [columns |-> {"match_id", "team_id", "team_name", "total_shots",
                     "shots_on_target", "goals", "total_xg", "total_passes",
                     "pass_completion_pct", "total_carries", "total_pressures"},
        rows |-> SeqOfSet({row(g) : g \in groups})]

\* ORDER BY on one nullable column, ascending: NULLs come last
SqlLe(a, b) == b = Null \/ (a # Null /\ a[1] <= b[1])

\* ORDER BY on a list of columns
RECURSIVE LexLe(_, _)
LexLe(k1, k2) ==
    IF k1 = <<>> THEN TRUE
    ELSE IF k1[1] = k2[1] THEN LexLe(Tail(k1), Tail(k2))
    ELSE SqlLe(k1[1], k2[1])

\* the rows S in ORDER BY order of their keys k[x]; rows of equal key come
\* in the order the engine happens to produce
RECURSIVE SortBy(_, _)
SortBy(S, k) ==
    IF S = {} THEN <<>>
    ELSE LET x == CHOOSE y \in S : \A z \in S : LexLe(k[y], k[z])
         IN <<x>> \o SortBy(S \ {x}, k)

\* SUM(xg) OVER (... ROWS BETWEEN UNBOUNDED PRECEDING AND CURRENT ROW) at
\* position n of the ordered partition xs
RunningSumMut(xs, n) == xs[n]
RunningSum(xs, n) ==
    LET J == {j \in 1 .. n : xs[j] # Null}
    IN IF J = {} THEN Null ELSE Some(SumOver(J, [j \in J |-> xs[j][1]]))

\* the SELECT of build_gold_xg_timeline on store st
build_gold_xg_timeline(st) ==
    LET s == st["fact_shots"].rows
        \* FROM fact_shots s LEFT JOIN (...) e: a shot and a joined team name
        joined == UNION {{<<i, tn>> : tn \in JoinedTeams(st, s[i].match_id, s[i].team_id)} :
                         i \in 1 .. Len(s)}
        time(e) == <<s[e[1]].period, s[e[1]].minute, s[e[1]].second>>
        partition(e) == {f \in joined : /\ s[f[1]].match_id = s[e[1]].match_id
                                        /\ s[f[1]].team_id = s[e[1]].team_id}
        window(e) == SortBy(partition(e), [f \in partition(e) |-> time(f)])
        cumulative(e) ==
            LET w == window(e)
                n == CHOOSE j \in 1 .. Len(w) : w[j] = e
            IN RunningSum([j \in 1 .. Len(w) |-> s[w[j][1]].xg], n)
        q == SortBy(joined, [e \in joined |->
                                <<s[e[1]].match_id, s[e[1]].team_id>> \o time(e)])
    IN [columns |-> {"match_id", "team_id", "team_name", "period", "minute", "second",
                     "xg", "is_goal", "outcome", "cumulative_xg"},
        rows |-> [j \in 1 .. Len(q) |->
            LET r == s[q[j][1]] IN
            [match_id |-> r.match_id, team_id |-> r.team_id, team_name |-> q[j][2],
             period |-> r.period, minute |-> r.minute, second |-> r.second,
             xg |-> r.xg, is_goal |-> r.is_goal, outcome |-> r.outcome,
             cumulative_xg |-> cumulative(q[j])]]]

\* the other gold SELECTs: the table and its columns (rows are not derived here)

build_gold_pass_network_nodes(st) ==
    [columns |-> {"match_id", "team_id", "player_id", "player_name", "avg_x", "avg_y",
                  "pass_count"},
     rows |-> <<>>]

\* the e.player values LEFT JOINed on (match_id, team_id, player_id): the
\* matching names, or one NULL when none matches
TeamPlayerNames(st, match_id, team_id, player_id) ==
    LET m == {r \in Range(st["fact_events"].rows) :
                /\ r.player_id # Null
                /\ SqlEq(match_id, r.match_id)
                /\ SqlEq(team_id, r.team_id)
                /\ SqlEq(player_id, r.player_id)}
    IN IF m = {} THEN {Null} ELSE {r.player : r \in m}

\* the same on (match_id, player_id)
PlayerNames(st, match_id, player_id) ==
    LET m == {r \in Range(st["fact_events"].rows) :
                /\ r.player_id # Null
                /\ SqlEq(match_id, r.match_id)
                /\ SqlEq(player_id, r.player_id)}
    IN IF m = {} THEN {Null} ELSE {r.player : r \in m}

\* WHERE p.is_completed = TRUE AND p.recipient_id IS NOT NULL
EdgePassMut(r) == TRUE
EdgePass(r) == r.is_completed /\ r.recipient_id # Null

\* HAVING COUNT(*) >= 2
MinEdgePasses == 2

\* the SELECT of build_gold_pass_network_edges on store st; the AVG columns
\* are not derived
build_gold_pass_network_edges(st) ==
    LET p == st["fact_passes"].rows
        joined == UNION {{<<i, pn, rn>> :
                            pn \in TeamPlayerNames(st, p[i].match_id, p[i].team_id,
                                                   p[i].player_id),
                            rn \in PlayerNames(st, p[i].match_id, p[i].recipient_id)} :
                         i \in {k \in 1 .. Len(p) : EdgePass(p[k])}}
        key(e) == <<p[e[1]].match_id, p[e[1]].team_id, p[e[1]].player_id,
                    p[e[1]].recipient_id, e[2], e[3]>>
        count(g) == Cardinality({e \in joined : key(e) = g})
        groups == {g \in {key(e) : e \in joined} : count(g) >= MinEdgePasses}
        row(g) == [match_id |-> g[1], team_id |-> g[2], passer_id |-> g[3],
                   recipient_id |-> g[4], passer_name |-> g[5],
                   recipient_name |-> g[6], pass_count |-> count(g)]
    IN [columns |-> {"match_id", "team_id", "passer_id", "recipient_id",
                     "passer_name", "recipient_name", "pass_count", "avg_start_x",
                     "avg_start_y", "avg_end_x", "avg_end_y"},
        rows |-> SeqOfSet({row(g) : g \in groups})]

\* the columns of gold_shot_map
ShotMapColumns ==
    {"match_id", "team_id", "team_name", "player_name", "location_x", "location_y",
     "end_location_x", "end_location_y", "xg", "outcome", "is_goal", "body_part",
     "shot_type", "technique", "period", "minute", "second"}

\* the SELECT of build_gold_shot_map on store st: every shot with its team
\* and player names; of the shot's columns those that fact_shots models
build_gold_shot_mapMut(st) ==
    [columns |-> ShotMapColumns,
     rows |-> [i \in 1 .. Len(st["gold_xg_timeline"].rows) |->
                  LET r == st["gold_xg_timeline"].rows[i] IN
                  [match_id |-> r.match_id, team_id |-> r.team_id,
                   team_name |-> r.team_name, player_name |-> Null,
                   location_x |-> Null, location_y |-> Null, xg |-> r.xg,
                   outcome |-> r.outcome, is_goal |-> r.is_goal, shot_type |-> Null,
                   period |-> r.period, minute |-> r.minute, second |-> r.second]]]
build_gold_shot_map(st) ==
    LET s == st["fact_shots"].rows
        joined == UNION {{<<i, tn, pn>> :
                            tn \in JoinedTeams(st, s[i].match_id, s[i].team_id),
                            pn \in PlayerNames(st, s[i].match_id, s[i].player_id)} :
                         i \in 1 .. Len(s)}
        q == SeqOfSet(joined)
    IN [columns |-> ShotMapColumns,
        rows |-> [j \in 1 .. Len(q) |->
            LET r == s[q[j][1]] IN
            [match_id |-> r.match_id, team_id |-> r.team_id, team_name |-> q[j][2],
             player_name |-> q[j][3], location_x |-> r.location_x,
             location_y |-> r.location_y, xg |-> r.xg, outcome |-> r.outcome,
             is_goal |-> r.is_goal, shot_type |-> r.shot_type, period |-> r.period,
             minute |-> r.minute, second |-> r.second]]]

\* WHERE location_x IS NOT NULL AND location_y IS NOT NULL
Located(q) == {i \in 1 .. Len(q) : q[i].location_x # Null /\ q[i].location_y # Null}

\* the fact_lineups rows LEFT JOINed on (match_id, player_id): the numbers of
\* the matching rows, or 0 for the one row of NULLs when none matches
JoinedLineups(st, match_id, player_id) ==
    LET l == st["fact_lineups"].rows
        m == {j \in 1 .. Len(l) : SqlEq(match_id, l[j].match_id)
                                   /\ SqlEq(player_id, l[j].player_id)}
    IN IF m = {} THEN {0} ELSE m

\* the SELECT of build_gold_formation_positions on store st; the AVG columns
\* are not derived
build_gold_formation_positions(st) ==
    LET p == st["fact_passes"].rows
        c == st["fact_carries"].rows
        l == st["fact_lineups"].rows
        key(r) == <<r.match_id, r.team_id, r.player_id>>
        \* touches, then agg: SUM(touch_count) over the two halves of the UNION ALL
        agg == {key(p[i]) : i \in Located(p)} \cup {key(c[i]) : i \in Located(c)}
        touch_count(g) == Cardinality({i \in Located(p) : key(p[i]) = g})
                          + Cardinality({i \in Located(c) : key(c[i]) = g})
        joined == UNION {{<<g, tn, pn, j>> :
                            tn \in JoinedTeams(st, g[1], g[2]),
                            pn \in PlayerNames(st, g[1], g[3]),
                            j \in JoinedLineups(st, g[1], g[3])} : g \in agg}
        q == SeqOfSet(joined)
    IN [columns |-> {"match_id", "team_id", "team_name", "player_name", "player_id",
                     "jersey_number", "position", "avg_x", "avg_y", "touch_count"},
        rows |-> [k \in 1 .. Len(q) |->
            LET g == q[k][1]
                j == q[k][4]
            IN [match_id |-> g[1], team_id |-> g[2], team_name |-> q[k][2],
                player_name |-> q[k][3], player_id |-> g[3],
                jersey_number |-> IF j = 0 THEN Null ELSE l[j].jersey_number,
                position |-> IF j = 0 THEN Null ELSE l[j].position,
                touch_count |-> touch_count(g)]]]

\* the SELECT of the builder of a gold table, on store st
GoldSelect(table, st) ==
    CASE table = "gold_xg_timeline" -> build_gold_xg_timeline(st)
      [] table = "gold_pass_network_nodes" -> build_gold_pass_network_nodes(st)
      [] table = "gold_pass_network_edges" -> build_gold_pass_network_edges(st)
      [] table = "gold_shot_map" -> build_gold_shot_map(st)
      [] table = "gold_formation_positions" -> build_gold_formation_positions(st)
      [] table = "gold_team_stats" -> build_gold_team_stats(st)

\* one builder call of gold.run(): DROP TABLE IF EXISTS, then CREATE TABLE AS
\* SELECT, which raises CatalogException when a selected table does not exist
GoldBuild(table, out, next) ==
    /\ Running("gold", table)
    /\ IF \E src \in GoldSources[table] : ~Exists(store, src)
       THEN /\ store' = [store EXCEPT ![table] = NoTable]
            /\ replaced' = replaced \cup (IF Exists(store, table) THEN {table} ELSE {})
            /\ Fail("gold", "CatalogException")
       ELSE _drop_create(table, out) /\ Goto("gold", next)
    /\ UNCHANGED <<bronze, df_events, xg_model_pkl, reapplied, nonStoreVars>>

gold_run ==
    /\ Begin("gold", "gold_xg_timeline")
    /\ UNCHANGED <<bronze, store, df_events, xg_model_pkl, reapplied, nonStoreVars>>

gold_xg_timeline ==
    GoldBuild("gold_xg_timeline", build_gold_xg_timeline(store),
              "gold_pass_network_nodes")

gold_pass_network_nodes ==
    GoldBuild("gold_pass_network_nodes", build_gold_pass_network_nodes(store),
              "gold_pass_network_edges")

gold_pass_network_edges ==
    GoldBuild("gold_pass_network_edges", build_gold_pass_network_edges(store),
              "gold_shot_map")

gold_shot_map ==
    GoldBuild("gold_shot_map", build_gold_shot_map(store), "gold_formation_positions")

gold_formation_positions ==
    GoldBuild("gold_formation_positions", build_gold_formation_positions(store),
              "gold_team_stats")

gold_team_stats ==
    GoldBuild("gold_team_stats", build_gold_team_stats(store), "done")

GoldStep ==
    \/ gold_xg_timeline
    \/ gold_pass_network_nodes
    \/ gold_pass_network_edges
    \/ gold_shot_map
    \/ gold_formation_positions
    \/ gold_team_stats

-----------------------------------------------------------------------------
(* The xG apply step: scripts/apply_xg_model.py *)

\* probabilities are in hundredths: 76 is 0.76
PenaltyXg == 76

\* a fitted pipeline, by the probability it gives a shot from the shot's
\* features; of the features, is_penalty is told apart
ProbValues == {12, 81}
Models == [is_penalty : ProbValues, otherwise : ProbValues]

\* model.predict_proba(build_features(df_valid))[:, 1] for one row
predict_proba(model, r) ==
    IF r.shot_type = Some("Penalty") THEN model.is_penalty ELSE model.otherwise

\* Series.fillna(d) on one value
fillnaMut(v, d) == v
fillna(v, d) == IF v = Null THEN Some(d) ELSE v

\* df["location_x"].notna() & df["location_y"].notna()
ValidLocation(r) == r.location_x # Null /\ r.location_y # Null

\* the frame df that main() writes back, from shots = SELECT * FROM fact_shots
xg_frame(model, shots) ==
    LET had == "xg_model" \in shots.columns
        old(r) == IF had THEN r.xg_model ELSE Null
        \* df.loc[df["shot_type"] == "Penalty", "xg_model"] = 0.76
        fixed(r) == IF r.shot_type = Some("Penalty") THEN Some(PenaltyXg) ELSE old(r)
        \* df.update(df_valid[["xg_model"]])
        updated(r) == IF ValidLocation(r) THEN Some(predict_proba(model, r))
                      ELSE fixed(r)
    IN [columns |-> shots.columns \cup {"xg_model"},
        rows |-> [i \in 1 .. Len(shots.rows) |->
            LET r == shots.rows[i] IN
            [c \in DOMAIN r \cup {"xg_model"} |->
                IF c = "xg_model" THEN fillna(updated(r), 0) ELSE r[c]]]]

\* joblib.load(models/xg_model.pkl): the persisted pipeline, or
\* FileNotFoundError without the file
joblib_loadMut(pkl) ==
    IF pkl = Null THEN [is_penalty |-> 12, otherwise |-> 12] ELSE pkl[1]
joblib_load(pkl) == IF pkl = Null THEN Raise("FileNotFoundError") ELSE pkl[1]

\* main(): joblib.load raises without the artifact, the SELECT raises without
\* the table, predict_proba raises on a frame of no rows; otherwise fact_shots
\* is dropped and created again from df
apply_xg_model_main ==
    /\ NoProgram
    /\ LET shots == store["fact_shots"]
           model == joblib_load(xg_model_pkl)
       IN
       IF Raised(model)
       THEN /\ Fail("apply_xg_model", "FileNotFoundError")
            /\ replaced' = {}
            /\ UNCHANGED <<store, reapplied>>
       ELSE IF ~Exists(store, "fact_shots")
       THEN /\ Fail("apply_xg_model", "CatalogException")
            /\ replaced' = {}
            /\ UNCHANGED <<store, reapplied>>
       ELSE IF \A i \in 1 .. Len(shots.rows) : ~ValidLocation(shots.rows[i])
       THEN /\ Fail("apply_xg_model", "ValueError")
            /\ replaced' = {}
            /\ UNCHANGED <<store, reapplied>>
       ELSE /\ store' = [store EXCEPT !["fact_shots"] =
                            TableOf("apply_xg_model", xg_frame(model, shots))]
            /\ replaced' = {"fact_shots"}
            /\ reapplied' = ("xg_model" \in shots.columns)
            /\ Goto("apply_xg_model", "done")
    /\ UNCHANGED <<bronze, df_events, xg_model_pkl, nonStoreVars>>

-----------------------------------------------------------------------------
(* PPDA: scripts/ppda.py *)

PRESS_ZONE_X == 48

\* WHERE type IN types AND location_x > PRESS_ZONE_X, as row numbers of ev
InZone(ev, types) ==
    {j \in 1 .. Len(ev) :
        /\ ev[j].type \in types
        /\ ev[j].location_x # Null
        /\ ev[j].location_x[1] > PRESS_ZONE_X}

\* SELECT match_id, team_id, team, COUNT(*) over the rows I of ev,
\* GROUP BY match_id, team_id, team
CountByTeam(ev, I) ==
    LET key(j) == <<ev[j].match_id, ev[j].team_id, ev[j].team>>
    IN {[match_id |-> g[1], team_id |-> g[2], team |-> g[3],
         n |-> Cardinality({j \in I : key(j) = g})] : g \in {key(j) : j \in I}}

DefensiveActions ==
    {Some("Tackle"), Some("Interception"), Some("Foul Committed"),
     Some("Ball Recovery")}

\* pandas `a != b`: true of a NaN
PdNe(a, b) == a = Null \/ b = Null \/ a # b

\* pairs["def_actions"].fillna(1) on the merged def_actions row d
fill_def_actionsMut(d) == IF d = Null THEN 0 ELSE d[1].n
fill_def_actions(d) == IF d = Null THEN 1 ELSE d[1].n

\* (opp_passes_in_zone / def_actions).round(2), in hundredths; the quotient
\* by 0 is inf or NaN, no number, and is Null here
ppda_ratio(opp, def) == IF def = 0 THEN Null ELSE Some(RoundDiv(100 * opp, def))

\* the frame ppda_match of main(), from store st
ppda_match(st) ==
    LET ev == st["fact_events"].rows
        passes_in_zone == CountByTeam(ev, InZone(ev, {Some("Pass")}))
        def_actions == CountByTeam(ev, InZone(ev, DefensiveActions))
        match_teams == {t \in TeamsOfEvents(st) : t[3] # Null}
        pairs == {pr \in match_teams \X match_teams :
                    pr[1][1] = pr[2][1] /\ PdNe(pr[1][2], pr[2][2])}
        \* how="left": the matching rows of the right frame, or one NaN
        left(frame, m, t) ==
            LET hit == {f \in frame : f.match_id = m /\ f.team_id = t}
            IN IF hit = {} THEN {Null} ELSE {Some(f) : f \in hit}
        merged == UNION {{<<pr[1], o, d>> :
                            o \in left(passes_in_zone, pr[2][1], pr[2][2]),
                            d \in left(def_actions, pr[1][1], pr[1][2])} :
                         pr \in pairs}
        row(c) ==
            LET opp == IF c[2] = Null THEN 0 ELSE c[2][1].n
                def == fill_def_actions(c[3])
            IN [match_id |-> c[1][1], team_id |-> c[1][2], team |-> c[1][3],
                opp_passes_in_zone |-> opp, def_actions |-> def,
                ppda |-> ppda_ratio(opp, def)]
        q == SeqOfSet(merged)
    IN [columns |-> {"match_id", "team_id", "team", "opp_passes_in_zone",
                     "def_actions", "ppda"},
        rows |-> [i \in 1 .. Len(q) |-> row(q[i])]]

\* sort_values("avg_ppda"): ascending, NaN last
RECURSIVE SortByAvgPpda(_)
SortByAvgPpda(S) ==
    IF S = {} THEN <<>>
    ELSE LET x == CHOOSE y \in S : \A z \in S : SqlLe(y.avg_ppda, z.avg_ppda)
         IN <<x>> \o SortByAvgPpda(S \ {x})

\* the frame ppda_team of main(): groupby(["team_id", "team"]) of ppda_match
ppda_team(pm) ==
    LET I == {i \in 1 .. Len(pm) : pm[i].team_id # Null /\ pm[i].team # Null}
        of(k) == {i \in I : pm[i].team_id = k[1] /\ pm[i].team = k[2]}
        row(k) ==
            [team_id |-> k[1], team |-> k[2],
             avg_ppda |->
                 LET J == {i \in of(k) : pm[i].ppda # Null}
                 IN IF J = {} THEN Null
                    ELSE Some(RoundDiv(SumOver(J, [i \in J |-> pm[i].ppda[1]]),
                                       Cardinality(J))),
             matches |-> Cardinality({pm[i].match_id : i \in of(k)} \ {Null}),
             total_def_actions |-> SumOver(of(k), [i \in of(k) |-> pm[i].def_actions])]
    IN [columns |-> {"team_id", "team", "avg_ppda", "matches", "total_def_actions"},
        rows |-> SortByAvgPpda({row(k) : k \in {<<pm[i].team_id, pm[i].team>> : i \in I}})]

\* the two tables main() saves first: what the store holds afterwards and
\* which tables were dropped and created
ppda_saveMut(st, pm, pt) ==
    [store |-> [st EXCEPT !["gold_ppda_match"] = TableOf("ppda", pm),
                          !["dim_match"] = TableOf("ppda", pt)],
     replaced |-> {"gold_ppda_match", "dim_match"}]
ppda_save(st, pm, pt) ==
    [store |-> [st EXCEPT !["gold_ppda_match"] = TableOf("ppda", pm),
                          !["gold_ppda_team"] = TableOf("ppda", pt)],
     replaced |-> {"gold_ppda_match", "gold_ppda_team"}]

\* ts.merge(ppda_match[["match_id", "team_id", "ppda"]], on=["match_id",
\* "team_id"], how="left"): a ppda column already in ts makes the pair
\* ppda_x, ppda_y; pandas raises MergeError when those names would repeat
merge_ppda(ts, pm) ==
    LET clash == "ppda" \in ts.columns
        joined(r, v) ==
            IF clash
            THEN [c \in (DOMAIN r \ {"ppda"}) \cup {"ppda_x", "ppda_y"} |->
                     IF c = "ppda_x" THEN r["ppda"]
                     ELSE IF c = "ppda_y" THEN v ELSE r[c]]
            ELSE [c \in DOMAIN r \cup {"ppda"} |-> IF c = "ppda" THEN v ELSE r[c]]
        hits(r) == SelectSeq(pm, LAMBDA m : m.match_id = r.match_id
                                            /\ m.team_id = r.team_id)
        rowsOf(r) == IF hits(r) = <<>> THEN <<joined(r, Null)>>
                     ELSE [k \in 1 .. Len(hits(r)) |-> joined(r, hits(r)[k].ppda)]
        RECURSIVE from(_)
        from(i) == IF i > Len(ts.rows) THEN <<>>
                   ELSE rowsOf(ts.rows[i]) \o from(i + 1)
    IN IF clash /\ ts.columns \cap {"ppda_x", "ppda_y"} # {}
       THEN Raise("MergeError")
       ELSE [columns |-> IF clash
                         THEN (ts.columns \ {"ppda"}) \cup {"ppda_x", "ppda_y"}
                         ELSE ts.columns \cup {"ppda"},
             rows |-> from(1)]

\* main(): the queries raise without fact_events or dim_match; the two PPDA
\* tables are saved; then gold_team_stats is read, merged and created again
ppda_main ==
    /\ NoProgram
    /\ IF ~Exists(store, "fact_events") \/ ~Exists(store, "dim_match")
       THEN /\ Fail("ppda", "CatalogException")
            /\ replaced' = {}
            /\ UNCHANGED store
       ELSE LET pm == ppda_match(store)
                saved == ppda_save(store, pm, ppda_team(pm.rows))
                ts == merge_ppda(store["gold_team_stats"], pm.rows)
            IN IF ~Exists(store, "gold_team_stats")
               THEN /\ store' = saved.store
                    /\ replaced' = saved.replaced
                    /\ Fail("ppda", "CatalogException")
               ELSE IF Raised(ts)
               THEN /\ store' = saved.store
                    /\ replaced' = saved.replaced
                    /\ Fail("ppda", ts.raise)
               ELSE /\ store' = [saved.store EXCEPT
                                    !["gold_team_stats"] = TableOf("ppda", ts)]
                    /\ replaced' = saved.replaced \cup {"gold_team_stats"}
                    /\ Goto("ppda", "done")
    /\ UNCHANGED <<bronze, df_events, xg_model_pkl, reapplied, nonStoreVars>>

-----------------------------------------------------------------------------
(* The programs that share the store *)

MaxShots == 2

InZoneAt == <<"ndarray", <<Some(60), Some(40)>>>>

\* the events every frame starts with: passes of team A inside and outside
\* the press zone, a ball recovery of team B inside it
ContextEvents ==
    <<[EvBase EXCEPT !.type = Some("Pass"), !.location = InZoneAt,
                     !.pass_recipient_id = Some(2)],
      [EvBase EXCEPT !.type = Some("Pass"), !.location = At12,
                     !.pass_outcome = Some("Incomplete")],
      [EvBase EXCEPT !.type = Some("Ball Recovery"), !.team = Some("B"),
                     !.team_id = Some(2), !.location = InZoneAt]>>

\* shots: open play or penalty, with a location, with half of one, without
ShotPool ==
    {[EvBase EXCEPT !.type = Some("Shot"), !.location = At12, !.minute = Some(2),
                    !.shot_outcome = Some("Goal"), !.shot_statsbomb_xg = Some(45),
                    !.shot_type = Some("Open Play")],
     [EvBase EXCEPT !.type = Some("Shot"), !.location = At12,
                    !.shot_outcome = Some("Saved"), !.shot_statsbomb_xg = Some(78),
                    !.shot_type = Some("Penalty")],
     [EvBase EXCEPT !.type = Some("Shot"), !.team = Some("B"), !.team_id = Some(2),
                    !.location = <<"list", <<Some(1)>>>>,
                    !.shot_outcome = Some("Off T"), !.shot_type = Some("Open Play")],
     [EvBase EXCEPT !.type = Some("Shot"), !.team = Some("B"), !.team_id = Some(2),
                    !.shot_outcome = Some("Off T"), !.shot_type = Some("Open Play")],
     [EvBase EXCEPT !.type = Some("Shot"), !.team = Some("B"), !.team_id = Some(2),
                    !.shot_outcome = Some("Goal"), !.shot_type = Some("Penalty")]}

StoreInputs ==
    {BronzeOf(<<"none">>, WithIds(ContextEvents \o shots)) :
        shots \in SeqsUpTo(ShotPool, MaxShots)}

InitStore ==
    /\ TrainIdle
    /\ MainIdle
    /\ XtIdle
    /\ BronzeIdle
    /\ UtilIdle
    /\ bronze \in StoreInputs
    /\ store = EmptyStore
    /\ pc = [prog |-> "none", at |-> "idle", err |-> "none"]
    /\ df_events = <<>>
    /\ replaced = {}
    /\ xg_model_pkl \in {Null} \cup {Some(m) : m \in Models}
    /\ reapplied = FALSE

NextStore ==
    \/ silver_run
    \/ SilverStep
    \/ gold_run
    \/ GoldStep
    \/ apply_xg_model_main
    \/ ppda_main

SpecStore == InitStore /\ [][NextStore]_vars

-----------------------------------------------------------------------------
(* run_pipeline.py --silver --gold: the two stages on one store *)

MaxPipelineEvents == 4

\* events of team A: passes from player 1 to player 2 (completed, incomplete,
\* without recipient), a carry of player 2, a goal
PipelinePool ==
    {[EvBase EXCEPT !.type = Some("Pass"), !.location = At12,
                    !.pass_recipient_id = Some(2)],
     [EvBase EXCEPT !.type = Some("Pass"), !.location = At12,
                    !.pass_recipient_id = Some(2),
                    !.pass_outcome = Some("Incomplete")],
     [EvBase EXCEPT !.type = Some("Pass"), !.location = At12],
     [EvBase EXCEPT !.type = Some("Carry"), !.location = At12,
                    !.player_id = Some(2), !.player = Some("p2")],
     [EvBase EXCEPT !.type = Some("Shot"), !.location = At12,
                    !.shot_outcome = Some("Goal"), !.shot_statsbomb_xg = Some(45),
                    !.shot_type = Some("Open Play")]}

\* lineups/1.json: player 1 of team A changes position during the match
ShiftLineups ==
    <<[team_id |-> Some(1), team_name |-> Some("A"),
       lineup |-> Some(<<[player_id |-> Some(1), player_name |-> Some("p1"),
                          jersey_number |-> Some(1), country |-> Null,
                          positions |-> Some(Intervals(2))],
                         [player_id |-> Some(2), player_name |-> Some("p2"),
                          jersey_number |-> Some(2), country |-> Null,
                          positions |-> Some(Intervals(1))]>>)],
      [team_id |-> Some(2), team_name |-> Some("B"), lineup |-> Some(<<>>)]>>

\* completed passes from player 1 to player 2, the passer under either of
\* two spellings of the name
SpellingPool ==
    {[EvBase EXCEPT !.type = Some("Pass"), !.location = At12,
                    !.pass_recipient_id = Some(2)],
     [EvBase EXCEPT !.type = Some("Pass"), !.location = At12,
                    !.pass_recipient_id = Some(2), !.player = Some("P. One")]}

\* data/bronze of one match: any frame of the pool, a short frame with the
\* lineups of a position change, or passes under two spellings
PipelineInputs ==
    {BronzeOf(<<"none">>, WithIds(ev)) :
        ev \in SeqsUpTo(PipelinePool, MaxPipelineEvents)
               \cup SeqsUpTo(SpellingPool, MaxEvents)}
    \cup {[BronzeOf(<<"none">>, WithIds(ev))
              EXCEPT !.lineups = DataFrame(lineup_rows(1, ShiftLineups)).rows] :
             ev \in SeqsUpTo(PipelinePool, MaxEvents)}

InitPipeline ==
    /\ TrainIdle
    /\ MainIdle
    /\ XtIdle
    /\ BronzeIdle
    /\ UtilIdle
    /\ bronze \in PipelineInputs
    /\ store = EmptyStore
    /\ pc = [prog |-> "none", at |-> "idle", err |-> "none"]
    /\ df_events = <<>>
    /\ replaced = {}
    /\ xg_model_pkl = Null
    /\ reapplied = FALSE

NextPipeline ==
    \/ silver_run
    \/ SilverStep
    \/ gold_run
    \/ GoldStep

SpecPipeline == InitPipeline /\ [][NextPipeline]_vars

-----------------------------------------------------------------------------
(* The CLI runner: scripts/run_pipeline.py *)

MaxArgs == 2

\* the store_true options of the parser
Flags == {"download", "bronze", "silver", "gold", "all", "force"}

\* the stage blocks of main(), in the order of the source text
Stages == <<"download", "bronze", "silver", "gold">>

\* args = parser.parse_args(): the options given, in whatever order
Args == Range(main.argv)

\* `if args.<stage> or args.all`
Selected(args, stage) == stage \in args \/ "all" \in args

\* the number of the first selected stage after stage number k, or one past
\* the last stage
NextStage(args, k) ==
    LET later == {j \in (k + 1) .. Len(Stages) : Selected(args, Stages[j])}
    IN IF later = {} THEN Len(Stages) + 1
       ELSE CHOOSE j \in later : \A i \in later : j <= i

AtOf(j) == IF j > Len(Stages) THEN "done" ELSE Stages[j]

\* main() calls <stage>.run()
Enter(stage) == [main EXCEPT !.began = Append(@, stage), !.running = TRUE]

\* the call of stage number k has returned (ok) or raised: main() goes on to
\* the next `if`, or the exception leaves main()
ReturnFromMut(m, k, ok) ==
    main' = [m EXCEPT !.at = AtOf(NextStage(Range(m.argv), k)), !.running = FALSE]
ReturnFrom(m, k, ok) ==
    main' = IF ok
            THEN [m EXCEPT !.at = AtOf(NextStage(Range(m.argv), k)), !.running = FALSE]
            ELSE [m EXCEPT !.at = "failed", !.running = FALSE, !.raised = Stages[k]]

\* main(): parse_args, and print_help / sys.exit(0) when no stage is selected
main_parse ==
    /\ main.at = "parse"
    /\ main' = IF Args \cap {"download", "bronze", "silver", "gold", "all"} = {}
               THEN [main EXCEPT !.at = "help"]
               ELSE [main EXCEPT !.at = AtOf(NextStage(Args, 0))]
    /\ UNCHANGED <<bronzeVars, utilVars, storeVars, trainVars, xtVars>>

\* the units in the order downloader.run() fetches them
DownloadOrder ==
    <<<<"competitions", 0>>>>
    \o Flatten([c \in 1 .. MaxComps |->
           <<<<"matches", c>>>>
           \o Flatten([k \in 1 .. MaxMatches |->
                  <<<<"events", match_ids(c)[k]>>, <<"lineups", match_ids(c)[k]>>>>])])

\* download_events_and_lineups skips a file that exists; competitions and
\* matches are always fetched
Fetched(u) == u[1] \in {"competitions", "matches"} \/ rawFiles[u] = NoFile

\* data/statsbomb_raw when downloader.run() has got through the first n units
Downloaded(n) ==
    [u \in Units |->
        IF Fetched(u) /\ \E i \in 1 .. n : DownloadOrder[i] = u
        THEN Document(u) ELSE rawFiles[u]]

\* main(): downloader.run(); _fetch_json raises for some unit after its
\* retries, or every unit is saved
downloader_run ==
    /\ main.at = "download"
    /\ \E n \in 0 .. Len(DownloadOrder) :
          /\ n < Len(DownloadOrder) => Fetched(DownloadOrder[n + 1])
          /\ rawFiles' = Downloaded(n)
          /\ ReturnFrom(Enter("download"), 1, n = Len(DownloadOrder))
    /\ UNCHANGED <<bronzeFiles, bpc, force, written, bronzeAtStart, bronzeRuns,
                   completedBefore, utilVars, storeVars, trainVars, xtVars>>

\* main(): bronze.run(force=args.force)
main_bronze ==
    /\ main.at = "bronze" /\ ~main.running
    /\ bronze_entry("force" \in Args)
    /\ main' = Enter("bronze")
    /\ UNCHANGED <<utilVars, storeVars, trainVars, xtVars>>

main_bronze_return ==
    /\ main.at = "bronze" /\ main.running
    /\ bpc.at \in {"done", "failed"}
    /\ ReturnFrom(main, 2, bpc.at = "done")
    /\ UNCHANGED <<bronzeVars, utilVars, storeVars, trainVars, xtVars>>

\* data/bronze as silver.run() finds it: without a bronze run there is no
\* parquet file to read
SilverView(b) ==
    IF bronzeFiles[<<"competitions", 0>>] = NoFile
    THEN [b EXCEPT !.defect = <<"nofiles", "competitions">>]
    ELSE b

\* main(): silver.run()
main_silver ==
    /\ main.at = "silver" /\ ~main.running
    /\ Begin("silver", "dim_competition")
    /\ df_events' = <<>>
    /\ bronze' = SilverView(bronze)
    /\ main' = Enter("silver")
    /\ UNCHANGED <<store, xg_model_pkl, reapplied, bronzeVars, utilVars, trainVars,
                   xtVars>>

main_silver_return ==
    /\ main.at = "silver" /\ main.running
    /\ pc.prog = "silver" /\ pc.at \in {"done", "failed"}
    /\ ReturnFrom(main, 3, pc.at = "done")
    /\ UNCHANGED <<bronzeVars, utilVars, storeVars, trainVars, xtVars>>

\* main(): gold.run()
main_gold ==
    /\ main.at = "gold" /\ ~main.running
    /\ Begin("gold", "gold_xg_timeline")
    /\ main' = Enter("gold")
    /\ UNCHANGED <<bronze, store, df_events, xg_model_pkl, reapplied, bronzeVars,
                   utilVars, trainVars, xtVars>>

main_gold_return ==
    /\ main.at = "gold" /\ main.running
    /\ pc.prog = "gold" /\ pc.at \in {"done", "failed"}
    /\ ReturnFrom(main, 4, pc.at = "done")
    /\ UNCHANGED <<bronzeVars, utilVars, storeVars, trainVars, xtVars>>

\* data/statsbomb_raw before the invocation: empty, complete, or complete but
\* for the events of the first match
RawBefore ==
    {[u \in Units |-> NoFile],
     [u \in Units |-> Document(u)],
     [u \in Units |-> IF u = <<"events", 1>> THEN NoFile ELSE Document(u)]}

\* data/bronze before the invocation: empty, or left complete by an earlier one
BronzeBefore ==
    {[u \in Units |-> NoFile],
     [u \in Units |->
         IF u[1] = "lineups"
         THEN <<"parquet", DataFrame(lineup_rows(u[2], SampleLineups))>>
         ELSE _json_to_df(Document(u))]}

InitMain ==
    /\ TrainIdle
    /\ XtIdle
    /\ UtilIdle
    /\ main \in {[argv |-> a, at |-> "parse", running |-> FALSE, began |-> <<>>,
                  raised |-> "none"] : a \in SeqsUpTo(Flags, MaxArgs)}
    /\ rawFiles \in RawBefore
    /\ bronzeFiles \in BronzeBefore
    /\ bronzeAtStart = bronzeFiles
    /\ bpc = At("idle", 0, 0)
    /\ force = FALSE
    /\ written = {}
    /\ bronzeRuns = 0
    /\ completedBefore = FALSE
    /\ bronze \in {BronzeOf(<<"none">>, SampleEvents),
                   BronzeOf(<<"nocolumn", "events", "location">>, SampleEvents)}
    /\ store \in {EmptyStore, StoreAfterSilver(BronzeOf(<<"none">>, SampleEvents))}
    /\ pc = [prog |-> "none", at |-> "idle", err |-> "none"]
    /\ df_events = <<>>
    /\ replaced = {}
    /\ xg_model_pkl = Null
    /\ reapplied = FALSE

NextMain ==
    \/ main_parse
    \/ downloader_run
    \/ main_bronze
    \/ ingest_competitions
    \/ ingest_matches
    \/ load_match_ids
    \/ ingest_events
    \/ ingest_lineups
    \/ main_bronze_return
    \/ main_silver
    \/ SilverStep
    \/ main_silver_return
    \/ main_gold
    \/ GoldStep
    \/ main_gold_return

SpecMain == InitMain /\ [][NextMain]_vars

-----------------------------------------------------------------------------
(* xG training: scripts/xg_model.py *)

\* StratifiedKFold(n_splits=5)
N_SPLITS == 5

\* load_shots(): the shots with a location that are not penalties, with
\* goal = is_goal::INTEGER and statsbomb_xg = xg
load_shots(st) ==
    LET s == SelectSeq(st["fact_shots"].rows,
                       LAMBDA r : /\ ValidLocation(r)
                                  /\ r.shot_type # Null
                                  /\ r.shot_type # Some("Penalty"))
    IN [i \in 1 .. Len(s) |->
           [event_id |-> s[i].event_id, match_id |-> s[i].match_id,
            location_x |-> s[i].location_x, location_y |-> s[i].location_y,
            shot_type |-> s[i].shot_type, statsbomb_xg |-> s[i].xg,
            goal |-> IF s[i].is_goal THEN 1 ELSE 0]]

\* train(df) raises ValueError: the stratified split needs a class of at
\* least n_splits shots, the final fit needs shots of both classes
TrainRaises(df) ==
    LET goals == Cardinality({i \in 1 .. Len(df) : df[i].goal = 1})
        others == Len(df) - goals
    IN goals = 0 \/ others = 0 \/ (goals < N_SPLITS /\ others < N_SPLITS)

\* evaluate(model, X, y, df) raises ValueError: log_loss(y, xg_sb) rejects a
\* NaN among the StatsBomb probabilities
EvaluateRaises(df) == \E i \in 1 .. Len(df) : df[i].statsbomb_xg = Null

\* main(): df = load_shots()
xg_model_load_shots ==
    /\ NoProgram
    /\ replaced' = {}
    /\ trained' = Null
    /\ IF Exists(store, "fact_shots")
       THEN Goto("xg_model", "train")
       ELSE Fail("xg_model", "CatalogException")
    /\ UNCHANGED <<bronze, store, df_events, xg_model_pkl, reapplied,
                   bronzeVars, utilVars, mainVars, xtVars>>

\* main(): model, X, y = train(df); the fitted pipeline is some model
xg_model_train ==
    /\ Running("xg_model", "train")
    /\ IF TrainRaises(load_shots(store))
       THEN Fail("xg_model", "ValueError") /\ UNCHANGED trained
       ELSE /\ \E m \in Models : trained' = Some(m)
            /\ Goto("xg_model", "evaluate")
    /\ UNCHANGED <<bronze, store, df_events, replaced, xg_model_pkl, reapplied,
                   bronzeVars, utilVars, mainVars, xtVars>>

\* main(): xg_model = evaluate(model, X, y, df)
xg_model_evaluate ==
    /\ Running("xg_model", "evaluate")
    /\ IF EvaluateRaises(load_shots(store))
       THEN Fail("xg_model", "ValueError")
       ELSE Goto("xg_model", "plot_calibration")
    /\ UNCHANGED <<bronze, store, df_events, replaced, xg_model_pkl, reapplied,
                   trained, bronzeVars, utilVars, mainVars, xtVars>>

\* main(): plot_calibration(y, xg_model, df["statsbomb_xg"].values)
xg_model_plot_calibration ==
    /\ Running("xg_model", "plot_calibration")
    /\ Goto("xg_model", "save_model")
    /\ UNCHANGED <<bronze, store, df_events, replaced, xg_model_pkl, reapplied,
                   trained, bronzeVars, utilVars, mainVars, xtVars>>

\* main(): save_model(model), joblib.dump to models/xg_model.pkl
xg_model_save_modelMut ==
    /\ Running("xg_model", "train")
    /\ xg_model_pkl' = Some(CHOOSE m \in Models : Some(m) # xg_model_pkl)
    /\ Goto("xg_model", "evaluate")
    /\ UNCHANGED <<bronze, store, df_events, replaced, reapplied, trained,
                   bronzeVars, utilVars, mainVars, xtVars>>
xg_model_save_model ==
    /\ Running("xg_model", "save_model")
    /\ xg_model_pkl' = trained
    /\ Goto("xg_model", "done")
    /\ UNCHANGED <<bronze, store, df_events, replaced, reapplied, trained,
                   bronzeVars, utilVars, mainVars, xtVars>>

MaxGoals == 1
MaxMisses == 5

GoalShot ==
    [EvBase EXCEPT !.type = Some("Shot"), !.location = At12,
                   !.shot_outcome = Some("Goal"), !.shot_statsbomb_xg = Some(45),
                   !.shot_type = Some("Open Play")]

MissedShot ==
    [EvBase EXCEPT !.type = Some("Shot"), !.location = At12,
                   !.shot_outcome = Some("Saved"), !.shot_statsbomb_xg = Some(12),
                   !.shot_type = Some("Open Play")]

\* shots that end a frame: none, a miss without StatsBomb xG, a penalty
LastShots ==
    {<<>>,
     <<[MissedShot EXCEPT !.shot_statsbomb_xg = Null]>>,
     <<[GoalShot EXCEPT !.shot_type = Some("Penalty")]>>}

Repeat(x, n) == [i \in 1 .. n |-> x]

TrainInputs ==
    {BronzeOf(<<"none">>, WithIds(Repeat(GoalShot, g) \o Repeat(MissedShot, m) \o last)) :
        g \in 0 .. MaxGoals, m \in 0 .. MaxMisses, last \in LastShots}

\* xg_model.py on a store that silver.run() has built, or on a new store
InitTrain ==
    /\ TrainIdle
    /\ MainIdle
    /\ XtIdle
    /\ BronzeIdle
    /\ UtilIdle
    /\ bronze \in TrainInputs
    /\ store \in {EmptyStore, StoreAfterSilver(bronze)}
    /\ pc = [prog |-> "none", at |-> "idle", err |-> "none"]
    /\ df_events = <<>>
    /\ replaced = {}
    /\ xg_model_pkl \in {Null} \cup {Some(m) : m \in Models}
    /\ reapplied = FALSE

NextTrain ==
    \/ xg_model_load_shots
    \/ xg_model_train
    \/ xg_model_evaluate
    \/ xg_model_plot_calibration
    \/ xg_model_save_model

SpecTrain == InitTrain /\ [][NextTrain]_vars

\* xg_model.py and apply_xg_model.py on a store that silver.run() has built,
\* before any model has been persisted
InitXg ==
    /\ TrainIdle
    /\ MainIdle
    /\ XtIdle
    /\ BronzeIdle
    /\ UtilIdle
    /\ bronze \in TrainInputs
    /\ store = StoreAfterSilver(bronze)
    /\ pc = [prog |-> "none", at |-> "idle", err |-> "none"]
    /\ df_events = <<>>
    /\ replaced = {}
    /\ xg_model_pkl = Null
    /\ reapplied = FALSE

NextXg ==
    \/ xg_model_load_shots
    \/ xg_model_train
    \/ xg_model_evaluate
    \/ xg_model_plot_calibration
    \/ xg_model_save_model
    \/ apply_xg_model_main

SpecXg == InitXg /\ [][NextXg]_vars

\* C15: in the xG training run the artifact is written only by save_model
\* after train() has returned: it is written at no other point, and a run
\* whose training raised leaves models/xg_model.pkl as it was.
C15_ArtifactOnlyAfterTrain ==
    [][xg_model_pkl' # xg_model_pkl
       => /\ pc.prog = "xg_model" /\ pc.at = "save_model"
          /\ trained # Null /\ xg_model_pkl' = trained]_vars

\* train() has raised in a run that found an artifact
C15_Witness ==
    /\ pc.prog = "xg_model" /\ pc.at = "failed" /\ pc.err = "ValueError"
    /\ trained = Null
    /\ xg_model_pkl # Null

\* C16: evaluation never blocks persistence: a training run fails only
\* before train() has returned; once train() has succeeded the run goes on
\* to persist the model, also when StatsBomb xG is missing for some shots.
C16_EvaluationNeverBlocksSave ==
    (pc.prog = "xg_model" /\ pc.at = "failed") => trained = Null

-----------------------------------------------------------------------------
(* Claims about the programs that share the store *)

HasXgModel == "xg_model" \in store["fact_shots"].columns

Shots == store["fact_shots"].rows

\* C4: after the xG apply step every shot whose shot_type is Penalty has
\* xg_model = 0.76 and not the model's output, penalties that have a valid
\* location included.
C4_PenaltiesGetFixedXg ==
    HasXgModel =>
        \A i \in 1 .. Len(Shots) :
            Shots[i].shot_type = Some("Penalty") => Shots[i].xg_model = Some(PenaltyXg)

\* C5 as stated: after the xG apply step every shot lacking a valid location
\* (location_x or location_y null) has xg_model = 0.0.
C5_NoLocationIsZero ==
    HasXgModel =>
        \A i \in 1 .. Len(Shots) :
            ~ValidLocation(Shots[i]) => Shots[i].xg_model = Some(0)

\* C5 amended: after the xG apply step, on a first application and on any
\* later one, a shot lacking a valid location has xg_model = 0.0 unless it is
\* a penalty, and a penalty lacking a valid location has xg_model = 0.76.
C5_NoLocationZeroOrPenalty ==
    HasXgModel =>
        \A i \in 1 .. Len(Shots) :
            ~ValidLocation(Shots[i]) =>
                Shots[i].xg_model = IF Shots[i].shot_type = Some("Penalty")
                                    THEN Some(PenaltyXg) ELSE Some(0)

\* a re-application has completed on a table holding a shot with half a
\* location and no penalty type
C5_Witness ==
    /\ pc.prog = "apply_xg_model" /\ pc.at = "done" /\ reapplied
    /\ \E i \in 1 .. Len(Shots) :
          /\ Shots[i].location_x # Null /\ Shots[i].location_y = Null
          /\ Shots[i].shot_type # Some("Penalty")
          /\ Shots[i].xg_model = Some(0)

\* the stage that owns a table
Owner(t) ==
    IF t \in SilverTables THEN "silver"
    ELSE IF t \in GoldTables THEN "gold"
    ELSE IF t \in PpdaTables THEN "ppda" ELSE "xt_model"

\* C6 as stated: no component other than a table's owning stage drops,
\* alters or recreates it; dimension and fact tables are written by Silver only.
C6_OnlyOwnerMutates == \A t \in replaced : pc.prog = Owner(t)

\* C6 amended: a table is dropped or created by its owning stage only, with
\* two exceptions: the xG apply step recreates fact_shots and the PPDA pass
\* recreates gold_team_stats.  gold.run() writes no Silver table, and no
\* dimension or fact table other than fact_shots is written outside Silver.
C6_OwnerOrDocumentedRewrite ==
    \A t \in replaced :
        \/ pc.prog = Owner(t)
        \/ pc.prog = "apply_xg_model" /\ t = "fact_shots"
        \/ pc.prog = "ppda" /\ t = "gold_team_stats"

\* the PPDA pass has completed on a store whose fact_shots the apply step
\* rewrote and whose gold tables gold.run() built
C6_Witness ==
    /\ pc.prog = "ppda" /\ pc.at = "done"
    /\ replaced = PpdaTables \cup {"gold_team_stats"}
    /\ store["fact_shots"].writer = "apply_xg_model"
    /\ store["gold_shot_map"].writer = "gold"
    /\ \A t \in SilverTables \ {"fact_shots"} : store[t].writer = "silver"

\* C7: the PPDA pass run again right after a completed PPDA pass leaves
\* gold_ppda_match, gold_ppda_team and gold_team_stats as the first pass left
\* them: same columns, same rows, a single ppda column.
C7_PpdaRerunSameState ==
    [][(pc.prog = "ppda" /\ pc.at = "done" /\ pc'.prog = "ppda")
       => \A t \in PpdaTables \cup {"gold_team_stats"} : store'[t] = store[t]]_vars

-----------------------------------------------------------------------------
(* Claims about the contents of the silver tables *)

SilverDone == pc.prog = "silver" /\ pc.at = "done"

\* the specialised fact tables and the event type each one holds
Specialised ==
    {<<"fact_passes", "Pass">>, <<"fact_shots", "Shot">>, <<"fact_carries", "Carry">>}

\* C11: after a Silver build fact_passes, fact_shots and fact_carries are the
\* subsets of fact_events of type Pass, Shot and Carry: every specialised row
\* has the event_id of exactly one fact_events row, which has the matching
\* type, and every fact_events row of that type appears exactly once in the
\* specialised table.
C11_SpecialisedAreTypedSubsets ==
    SilverDone =>
        \A sp \in Specialised :
            LET ev == store["fact_events"].rows
                rows == store[sp[1]].rows
            IN /\ \A i \in 1 .. Len(rows) :
                      LET J == {j \in 1 .. Len(ev) : ev[j].event_id = rows[i].event_id}
                      IN Cardinality(J) = 1 /\ \A j \in J : ev[j].type = Some(sp[2])
               /\ \A j \in 1 .. Len(ev) :
                      ev[j].type = Some(sp[2]) =>
                          Cardinality({i \in 1 .. Len(rows) :
                                         rows[i].event_id = ev[j].event_id}) = 1

\* a build has completed on events of which one is a pass and one is not
C11_Witness ==
    /\ SilverDone
    /\ Len(store["fact_events"].rows) = 2
    /\ Len(store["fact_passes"].rows) = 1
    /\ Len(store["fact_shots"].rows) = 1

\* C12: after a Silver build each non-null team_id of a fact row equals the
\* team_id of the dim_team row whose team_name is that row's team.
C12_TeamIdIsDimTeamKey ==
    SilverDone =>
        \A i \in 1 .. Len(store["fact_events"].rows) :
            LET r == store["fact_events"].rows[i] IN
            r.team_id # Null =>
                \E k \in 1 .. Len(store["dim_team"].rows) :
                    LET d == store["dim_team"].rows[k] IN
                    d.team_name = r.team /\ d.team_id = r.team_id

\* the builders of silver.run() in call order
SilverOrder ==
    <<"dim_competition", "dim_match", "dim_team", "dim_player", "fact_events",
      "fact_passes", "fact_shots", "fact_carries", "fact_lineups",
      "bridge_shot_freeze_frame">>

\* the tables the first k builders write
FirstBuilt(k) == {SilverOrder[i] : i \in 1 .. k}

\* C13: Silver runs its builders in the fixed order dim_competition, dim_match,
\* dim_team, dim_player, fact_events, fact_passes, fact_shots, fact_carries,
\* fact_lineups, bridge_shot_freeze_frame: a builder starts only when exactly
\* the earlier builders have completed, and once a builder has raised no
\* later builder runs and the stage has failed.
C13_FixedOrderFailFast ==
    pc.prog = "silver" =>
        \E k \in 0 .. Len(SilverOrder) :
            /\ replaced = FirstBuilt(k)
            /\ \/ pc.at = "failed"
               \/ k < Len(SilverOrder) /\ pc.at = SilverOrder[k + 1]
               \/ k = 4 /\ pc.at = "read_events"
               \/ k = Len(SilverOrder) /\ pc.at = "done"

\* the stage has failed after some builders, and not all, had completed
C13_Witness ==
    /\ pc.prog = "silver" /\ pc.at = "failed"
    /\ replaced = FirstBuilt(5)

-----------------------------------------------------------------------------
(* Claims about the gold tables *)

GoldDone == pc.prog = "gold" /\ pc.at = "done"

Timeline == store["gold_xg_timeline"].rows

\* row i comes strictly before row j in (period, minute, second) order
Earlier(i, j) ==
    LET ti == <<Timeline[i].period, Timeline[i].minute, Timeline[i].second>>
        tj == <<Timeline[j].period, Timeline[j].minute, Timeline[j].second>>
    IN LexLe(ti, tj) /\ ti # tj

\* C17: within every (match_id, team_id) partition of gold_xg_timeline,
\* cumulative_xg is non-decreasing along the (period, minute, second) order:
\* a later row never has a smaller sum, nor none where an earlier row has one.
C17_CumulativeXgNonDecreasing ==
    \A i, j \in 1 .. Len(Timeline) :
        (/\ Timeline[i].match_id = Timeline[j].match_id
         /\ Timeline[i].team_id = Timeline[j].team_id
         /\ Earlier(i, j)
         /\ Timeline[i].cumulative_xg # Null)
        => /\ Timeline[j].cumulative_xg # Null
           /\ Timeline[i].cumulative_xg[1] <= Timeline[j].cumulative_xg[1]

\* a partition holds an earlier shot of xg 0.78 and a later one of xg 0.45
C17_Witness ==
    \E i, j \in 1 .. Len(Timeline) :
        /\ Timeline[i].team_id = Timeline[j].team_id
        /\ Earlier(i, j)
        /\ Timeline[i].xg = Some(78) /\ Timeline[j].xg = Some(45)
        /\ Timeline[j].cumulative_xg = Some(123)

Edges == store["gold_pass_network_edges"].rows

\* the fact_passes rows of an edge's match, team, passer and recipient
PassesOfEdge(e) ==
    {i \in 1 .. Len(store["fact_passes"].rows) :
        LET p == store["fact_passes"].rows[i] IN
        /\ p.match_id = e.match_id /\ p.team_id = e.team_id
        /\ p.player_id = e.passer_id /\ p.recipient_id = e.recipient_id}

\* C18: every gold_pass_network_edges row has pass_count >= 2 and counts only
\* completed passes that have a recipient: the recipient of an edge is not
\* null and pass_count is the number of completed passes of the pair, however
\* many incomplete ones the pair has.
C18_EdgesCountCompletedPairs ==
    GoldDone =>
        \A k \in 1 .. Len(Edges) :
            /\ Edges[k].pass_count >= 2
            /\ Edges[k].recipient_id # Null
            /\ Edges[k].pass_count =
                   Cardinality({i \in PassesOfEdge(Edges[k]) :
                                  store["fact_passes"].rows[i].is_completed})

\* an edge exists for a pair that also has an incomplete pass
C18_Witness ==
    /\ GoldDone
    /\ \E k \in 1 .. Len(Edges) :
          \E i \in PassesOfEdge(Edges[k]) : ~store["fact_passes"].rows[i].is_completed

\* the store with its Silver tables only
SilverOnly(st) == [t \in AllTables |-> IF t \in SilverTables THEN st[t] ELSE NoTable]

PpdaMatch == store["gold_ppda_match"].rows

\* the defensive actions of a team in the press zone of a match
ZoneActions(match_id, team_id) ==
    LET ev == store["fact_events"].rows
    IN {j \in InZone(ev, DefensiveActions) :
          ev[j].match_id = match_id /\ ev[j].team_id = team_id}

\* C19: every PPDA value in gold_ppda_match is a number and not negative:
\* in every row def_actions is at least 1, being 1 when the team has no
\* defensive action in the zone, and opp_passes_in_zone is at least 0.
C19_PpdaFiniteNonNegative ==
    \A i \in 1 .. Len(PpdaMatch) :
        LET r == PpdaMatch[i] IN
        /\ r.def_actions >= 1
        /\ ZoneActions(r.match_id, r.team_id) = {} => r.def_actions = 1
        /\ r.opp_passes_in_zone >= 0
        /\ r.ppda # Null
        /\ r.ppda[1] >= 0

\* the table holds a team without defensive action in the zone and a team
\* whose opponent passed in the zone
C19_Witness ==
    /\ \E i \in 1 .. Len(PpdaMatch) :
          /\ ZoneActions(PpdaMatch[i].match_id, PpdaMatch[i].team_id) = {}
          /\ PpdaMatch[i].def_actions = 1
    /\ \E i \in 1 .. Len(PpdaMatch) :
          /\ PpdaMatch[i].opp_passes_in_zone >= 1
          /\ PpdaMatch[i].ppda[1] > 0

\* one match of teams A and B: two completed passes from player 1 to player
\* 2, an incomplete one, and a goal of StatsBomb xG 0.45
SyntheticMatch ==
    WithIds(<<[EvBase EXCEPT !.type = Some("Pass"), !.location = At12,
                             !.pass_recipient_id = Some(2)],
              [EvBase EXCEPT !.type = Some("Pass"), !.location = At12,
                             !.pass_recipient_id = Some(2)],
              [EvBase EXCEPT !.type = Some("Pass"), !.location = At12,
                             !.pass_recipient_id = Some(2),
                             !.pass_outcome = Some("Incomplete")],
              [EvBase EXCEPT !.type = Some("Shot"), !.location = At12,
                             !.shot_outcome = Some("Goal"),
                             !.shot_statsbomb_xg = Some(45),
                             !.shot_type = Some("Open Play")]>>)

\* C20: for the synthetic match, Silver and Gold give fact_passes with 3
\* rows and is_completed [True, True, False]; gold_pass_network_edges with
\* exactly 1 row, of pass_count 2 for the pair; gold_xg_timeline with 1 row
\* and cumulative_xg 0.45; and a gold_team_stats row for the scoring team
\* with goals = 1 and total_shots = 1.
C20_SyntheticMatchTables ==
    (bronze.events = SyntheticMatch /\ GoldDone) =>
        /\ Len(store["fact_passes"].rows) = 3
        /\ [i \in 1 .. 3 |-> store["fact_passes"].rows[i].is_completed]
               = <<TRUE, TRUE, FALSE>>
        /\ Len(Edges) = 1
        /\ Edges[1].pass_count = 2
        /\ Edges[1].passer_id = Some(1) /\ Edges[1].recipient_id = Some(2)
        /\ Len(Timeline) = 1
        /\ Timeline[1].cumulative_xg = Some(45)
        /\ \E k \in 1 .. Len(store["gold_team_stats"].rows) :
              LET t == store["gold_team_stats"].rows[k] IN
              t.team_name = Some("A") /\ t.goals = 1 /\ t.total_shots = 1

\* Silver and Gold have run on the synthetic match
C20_Witness ==
    /\ bronze.events = SyntheticMatch
    /\ GoldDone
    /\ replaced = GoldTables
    /\ store["fact_passes"].writer = "silver"

-----------------------------------------------------------------------------
(* Claims about the lineup rows *)

\* the lineup document of the first match and the artifact made from it
LineupDoc == rawFiles[<<"lineups", 1>>][2]
LineupFrame == bronzeFiles[<<"lineups", 1>>][2]
LineupIngested == bronzeFiles[<<"lineups", 1>>] # NoFile

\* the players of the document: <<team index, player index>>
LineupPlayers ==
    {<<t, p>> \in (1 .. Len(LineupDoc)) \X (1 .. MaxPlayers) :
        p <= Len(Get(LineupDoc[t].lineup, <<>>))}

IntervalsOf(tp) == Get(LineupDoc[tp[1]].lineup[1][tp[2]].positions, <<>>)

RowsOfPlayer(tp) ==
    {i \in 1 .. Len(LineupFrame.rows) :
        /\ LineupFrame.rows[i].team_id = LineupDoc[tp[1]].team_id
        /\ LineupFrame.rows[i].player_id = LineupDoc[tp[1]].lineup[1][tp[2]].player_id}

HasPosition(i) ==
    "position" \in LineupFrame.columns /\ LineupFrame.rows[i].position # Null

\* C21: ingest_lineups emits, for every player of every team of the lineup
\* document, one row per position interval, and exactly one row without
\* position fields when the player has no interval: a player has
\* max(1, number of intervals) rows, and no player is lost.
C21_RowsPerPlayer ==
    LineupIngested =>
        /\ \A tp \in LineupPlayers :
              LET n == Len(IntervalsOf(tp)) IN
              /\ Cardinality(RowsOfPlayer(tp)) = IF n = 0 THEN 1 ELSE n
              /\ n = 0 => \A i \in RowsOfPlayer(tp) : ~HasPosition(i)
              /\ n > 0 => {LineupFrame.rows[i].position_id : i \in RowsOfPlayer(tp)}
                             = {Some(k) : k \in 1 .. n}
        /\ Len(LineupFrame.rows) =
              SumOver(LineupPlayers,
                      [tp \in LineupPlayers |->
                          IF IntervalsOf(tp) = <<>> THEN 1 ELSE Len(IntervalsOf(tp))])

\* a document where one player has no interval and another has several
C21_Witness ==
    /\ LineupIngested
    /\ \E tp \in LineupPlayers : LineupDoc[tp[1]].lineup[1][tp[2]].positions = Some(<<>>)
    /\ \E tp \in LineupPlayers : Len(IntervalsOf(tp)) >= 2

-----------------------------------------------------------------------------
(* Claims about the dimension tables *)

DimCompetition == store["dim_competition"].rows

\* C23: after a Silver build, dim_competition has at most one row per
\* (competition_id, season_id) pair, whatever the names in the bronze rows.
C23_OneRowPerCompetitionSeason ==
    SilverDone =>
        \A i, j \in 1 .. Len(DimCompetition) :
            (/\ DimCompetition[i].competition_id = DimCompetition[j].competition_id
             /\ DimCompetition[i].season_id = DimCompetition[j].season_id)
            => i = j

-----------------------------------------------------------------------------
(* Claims about gold_formation_positions *)

Formation == store["gold_formation_positions"].rows

\* C28: gold_formation_positions has at most one row per (match_id, team_id,
\* player_id), also for a player whose lineup entry has several position
\* intervals, and touch_count is the player's number of located passes plus
\* located carries in the match.
C28_OneFormationRowPerPlayer ==
    GoldDone =>
        /\ \A i, j \in 1 .. Len(Formation) :
              (/\ Formation[i].match_id = Formation[j].match_id
               /\ Formation[i].team_id = Formation[j].team_id
               /\ Formation[i].player_id = Formation[j].player_id) => i = j
        /\ \A i \in 1 .. Len(Formation) :
              Formation[i].touch_count =
                  Cardinality({k \in Located(store["fact_passes"].rows) :
                      /\ store["fact_passes"].rows[k].match_id = Formation[i].match_id
                      /\ store["fact_passes"].rows[k].team_id = Formation[i].team_id
                      /\ store["fact_passes"].rows[k].player_id = Formation[i].player_id})
                  + Cardinality({k \in Located(store["fact_carries"].rows) :
                      /\ store["fact_carries"].rows[k].match_id = Formation[i].match_id
                      /\ store["fact_carries"].rows[k].team_id = Formation[i].team_id
                      /\ store["fact_carries"].rows[k].player_id = Formation[i].player_id})

-----------------------------------------------------------------------------
(* Claims about the keys of gold_pass_network_edges and gold_team_stats *)

\* C29: gold_pass_network_edges has at most one row per (match_id, team_id,
\* passer_id, recipient_id), and pass_count is the number of completed
\* fact_passes rows of that match and team from that passer to that
\* recipient: the name joins neither duplicate an edge nor inflate its count.
C29_OneEdgePerPair ==
    GoldDone =>
        /\ \A i, j \in 1 .. Len(Edges) :
              (/\ Edges[i].match_id = Edges[j].match_id
               /\ Edges[i].team_id = Edges[j].team_id
               /\ Edges[i].passer_id = Edges[j].passer_id
               /\ Edges[i].recipient_id = Edges[j].recipient_id) => i = j
        /\ \A k \in 1 .. Len(Edges) :
              Edges[k].pass_count =
                  Cardinality({i \in PassesOfEdge(Edges[k]) :
                                 store["fact_passes"].rows[i].is_completed})

TeamStats == store["gold_team_stats"].rows

\* the (match_id, team_id) pairs of the events and shots in the store
MatchTeams ==
    {<<r.match_id, r.team_id>> : r \in Range(store["fact_events"].rows)}
    \cup {<<r.match_id, r.team_id>> : r \in Range(store["fact_shots"].rows)}

HasShots(mt) ==
    \E r \in Range(store["fact_shots"].rows) : <<r.match_id, r.team_id>> = mt

HasTeamStats(mt) ==
    \E r \in Range(TeamStats) : <<r.match_id, r.team_id>> = mt

\* C30: gold_team_stats has a row for a (match, team) exactly when the team
\* has at least one fact_shots row in that match: a team without shots has
\* no row, even when it has passes, carries or pressures in the match.
C30_TeamStatsIffShots ==
    GoldDone => \A mt \in MatchTeams : HasTeamStats(mt) <=> HasShots(mt)

\* team A passed and took no shot, team B took one
C30_Witness ==
    /\ GoldDone
    /\ \E r \in Range(store["fact_passes"].rows) : r.team_id = Some(1)
    /\ ~HasShots(<<Some(1), Some(1)>>)
    /\ HasShots(<<Some(1), Some(2)>>)
    /\ HasTeamStats(<<Some(1), Some(2)>>)

-----------------------------------------------------------------------------
(* Claims about the xG apply step and the persisted model *)

\* C25: the apply step writes only xg_model values computed from the
\* persisted artifact: without an artifact it fails while loading the model
\* and leaves the store as it was; with one, what it writes to fact_shots is
\* computed from that artifact.
C25_ApplyNeedsPersistedModel ==
    [][(NoProgram /\ pc'.prog = "apply_xg_model")
       => IF xg_model_pkl = Null
          THEN /\ pc'.at = "failed" /\ pc'.err = "FileNotFoundError"
               /\ store' = store
          ELSE store' # store
               => store'["fact_shots"].rows
                      = xg_frame(xg_model_pkl[1], store["fact_shots"]).rows]_vars

\* apply has failed on a store with shots, no model being persisted
C25_Witness ==
    /\ pc.prog = "apply_xg_model" /\ pc.at = "failed"
    /\ pc.err = "FileNotFoundError"
    /\ xg_model_pkl = Null
    /\ store["fact_shots"].writer = "silver"
    /\ \E i \in 1 .. Len(store["fact_shots"].rows) :
          ValidLocation(store["fact_shots"].rows[i])

-----------------------------------------------------------------------------
(* Claims about the CLI runner *)

Rank(stage) == CHOOSE k \in 1 .. Len(Stages) : Stages[k] = stage

\* the full output of a stage is in place
Committed(stage) ==
    CASE stage = "download" -> \A u \in Units : rawFiles[u] # NoFile
      [] stage = "bronze" -> bpc.at = "done" /\ \A u \in Units : bronzeFiles[u] # NoFile
      [] stage = "silver" -> \A t \in SilverTables : store[t].writer = "silver"
      [] stage = "gold" -> \A t \in GoldTables : store[t].writer = "gold"

\* C24: in one invocation the selected stages run strictly in the order
\* download, bronze, silver, gold, whatever the order of the flags; a stage
\* begins only after its predecessor has returned with its full output in
\* place; and when a stage raises, no later stage of the invocation runs.
C24_StagesInOrderFailFast ==
    LET b == main.began IN
    /\ \A i \in 1 .. Len(b) : Selected(Args, b[i])
    /\ \A i, j \in 1 .. Len(b) : i < j => Rank(b[i]) < Rank(b[j])
    /\ \A i \in 1 .. Len(b) : i < Len(b) => Committed(b[i])
    /\ main.raised # "none"
          => main.at = "failed" /\ b # <<>> /\ b[Len(b)] = main.raised
    /\ main.at = "done"
          => /\ Range(b) = {st \in Range(Stages) : Selected(Args, st)}
             /\ \A i \in 1 .. Len(b) : Committed(b[i])

\* gold was asked for before silver, silver raised, and gold did not run
C24_Witness ==
    /\ main.argv = <<"gold", "silver">>
    /\ main.at = "failed" /\ main.raised = "silver"
    /\ main.began = <<"silver">>

-----------------------------------------------------------------------------
(* Expected threat: scripts/xt_model.py *)

GRID_X == 16
GRID_Y == 12
PITCH_X == 120
PITCH_Y == 80
ITERS == 10

\* player_xt[player_xt["matches_played"] >= 3]
MinMatches == 3

\* Series.clip(lo, hi) on one value
Clip(v, lo, hi) == IF v < lo THEN lo ELSE IF v > hi THEN hi ELSE v

\* to_grid(x, y) on one pair of coordinates: <<col, row>>; astype(int)
\* truncates, and a negative quotient is clipped to 0 either way
to_grid(x, y) ==
    <<Clip((x[1] * GRID_X) \div PITCH_X, 0, GRID_X - 1),
      Clip((y[1] * GRID_Y) \div PITCH_Y, 0, GRID_Y - 1)>>

zone_index(col, row) == row * GRID_X + col

\* the zone of the point (x, y)
ZoneOf(x, y) == LET g == to_grid(x, y) IN zone_index(g[1], g[2])

\* astype(int) of a Series holding NaN raises: some row of the frame has a
\* null in one of the named columns
NaNIn(rows, names) == \E i \in 1 .. Len(rows) : \E c \in names : rows[i][c] = Null

SetPieces == {"Kick Off", "Goal Kick", "Corner", "Throw-in"}

\* the WHERE clause of the passes query on one fact_passes row, as SQL groups
\* it: (location_x IS NOT NULL AND end_location_x IS NOT NULL AND
\* pass_type NOT IN (...)) OR pass_type IS NULL; NOT IN of a NULL is not true
PassSelected(p) ==
    \/ /\ p.location_x # Null
       /\ p.end_location_x # Null
       /\ p.pass_type # Null /\ p.pass_type[1] \notin SetPieces
    \/ p.pass_type = Null

\* the WHERE clause of the carries query
CarrySelected(c) == c.location_x # Null /\ c.end_location_x # Null

\* LEFT JOIN dim_player pl ON x.player_id = pl.player_id: the row once per
\* matching player, or once with a NULL name
JoinPlayer(st, r, row(_)) ==
    LET names == {pl.player_name : pl \in
                     {q \in Range(st["dim_player"].rows) : SqlEq(r.player_id, q.player_id)}}
    IN IF names = {} THEN <<row(Null)>>
       ELSE LET ns == SeqOfSet(names) IN [k \in 1 .. Len(ns) |-> row(ns[k])]

\* load_data(): the four frames the queries return
LoadPasses(st) ==
    LET kept == SelectSeq(st["fact_passes"].rows, PassSelected) IN
    Flatten([i \in 1 .. Len(kept) |->
        JoinPlayer(st, kept[i], LAMBDA n :
            [event_id |-> kept[i].event_id, match_id |-> kept[i].match_id,
             player_id |-> kept[i].player_id,
             location_x |-> kept[i].location_x, location_y |-> kept[i].location_y,
             end_location_x |-> kept[i].end_location_x,
             end_location_y |-> kept[i].end_location_y,
             is_completed |-> kept[i].is_completed, player_name |-> n])])

LoadCarries(st) ==
    LET kept == SelectSeq(st["fact_carries"].rows, CarrySelected) IN
    Flatten([i \in 1 .. Len(kept) |->
        JoinPlayer(st, kept[i], LAMBDA n :
            [event_id |-> kept[i].event_id, match_id |-> kept[i].match_id,
             player_id |-> kept[i].player_id,
             location_x |-> kept[i].location_x, location_y |-> kept[i].location_y,
             end_location_x |-> kept[i].end_location_x,
             end_location_y |-> kept[i].end_location_y, player_name |-> n])])

LoadShots(st) ==
    LET kept == SelectSeq(st["fact_shots"].rows, LAMBDA r : r.location_x # Null) IN
    [i \in 1 .. Len(kept) |->
        [location_x |-> kept[i].location_x, location_y |-> kept[i].location_y,
         is_goal |-> kept[i].is_goal]]

\* SELECT player_id, COUNT(DISTINCT match_id) FROM fact_events
\* WHERE player_id IS NOT NULL GROUP BY player_id
LoadMinutes(st) ==
    LET ev == Range(st["fact_events"].rows)
        ids == {r.player_id : r \in ev} \ {Null}
    IN [p \in ids |->
           Cardinality({r.match_id : r \in {q \in ev : q.player_id = p}} \ {Null})]

\* the tables load_data() reads
XtReads == {"fact_passes", "dim_player", "fact_carries", "fact_shots", "fact_events"}

\* main(): load_data(); a table the store lacks raises CatalogException
xt_model_load_data ==
    /\ NoProgram
    /\ replaced' = {}
    /\ IF \A t \in XtReads : Exists(store, t)
       THEN /\ xt' = [passes |-> LoadPasses(store), carries |-> LoadCarries(store),
                      shots |-> LoadShots(store), minutes |-> LoadMinutes(store),
                      grid |-> <<>>, xT |-> <<>>, i |-> 0, player_xt |-> <<>>]
            /\ Goto("xt_model", "build_xt_grid")
       ELSE /\ xt' = <<>>
            /\ Fail("xt_model", "CatalogException")
    /\ UNCHANGED <<bronze, store, df_events, xg_model_pkl, reapplied,
                   bronzeVars, utilVars, trainVars, mainVars>>

\* passes[passes["is_completed"]]
CompletedPasses(passes) == SelectSeq(passes, LAMBDA r : r.is_completed)

\* pd.concat of the coordinate columns of the completed passes and the carries
AllMoves(passes, carries) ==
    LET coords(rows) == [i \in 1 .. Len(rows) |->
            [location_x |-> rows[i].location_x, location_y |-> rows[i].location_y,
             end_location_x |-> rows[i].end_location_x,
             end_location_y |-> rows[i].end_location_y]]
    IN coords(CompletedPasses(passes)) \o coords(carries)

\* the number of rows of a frame that satisfy a test
CountRows(rows, Test(_)) == Len(SelectSeq(rows, Test))

\* The count grids of build_xt_grid, kept over the zones that hold an event;
\* every other zone has all-zero counts.  T holds the transition counts
\* before normalisation.
CountGrids(passes, carries, shots) ==
    LET moves == AllMoves(passes, carries)
        start(r) == ZoneOf(r.location_x, r.location_y)
        end(r) == ZoneOf(r.end_location_x, r.end_location_y)
        zones == {start(shots[i]) : i \in 1 .. Len(shots)}
                 \cup {start(moves[i]) : i \in 1 .. Len(moves)}
                 \cup {end(moves[i]) : i \in 1 .. Len(moves)}
    IN [shot_counts |-> [z \in zones |-> CountRows(shots, LAMBDA r : start(r) = z)],
        goal_counts |-> [z \in zones |->
                            CountRows(shots, LAMBDA r : r.is_goal /\ start(r) = z)],
        move_counts |-> [z \in zones |-> CountRows(moves, LAMBDA r : start(r) = z)],
        T |-> [z \in zones |-> [w \in zones |->
                  CountRows(moves, LAMBDA r : start(r) = z /\ end(r) = w)]]]

\* count / (total + 1e-6) in hundredths, truncated
Ratio(count, total) == (count * 1000000 * 100) \div (total * 1000000 + 1)

p_shot(g, z) == Ratio(g.shot_counts[z], g.shot_counts[z] + g.move_counts[z])
p_move(g, z) == Ratio(g.move_counts[z], g.shot_counts[z] + g.move_counts[z])
p_goal_given_shot(g, z) == Ratio(g.goal_counts[z], g.shot_counts[z])

\* row_sums[row_sums == 0] = 1; T = T / row_sums, in hundredths, truncated
NormaliseMut(count, row_sum) == 100 * count
Normalise(count, row_sum) ==
    (100 * count) \div (IF row_sum = 0 THEN 1 ELSE row_sum)

\* the normalised transition matrix entry T[z, w]
Transition(g, z, w) ==
    Normalise(g.T[z][w], SumOver(DOMAIN g.T[z], g.T[z]))

\* one round of the value iteration:
\* xT_new = p_shot * p_goal_given_shot + p_move * (T @ xT_flat)
Round(g, xT) ==
    [z \in DOMAIN xT |->
        (p_shot(g, z) * p_goal_given_shot(g, z)) \div 100
        + (p_move(g, z)
           * (SumOver(DOMAIN xT, [w \in DOMAIN xT |-> Transition(g, z, w) * xT[w]])
              \div 100)) \div 100]

\* build_xt_grid up to the loop: to_grid raises ValueError on a NaN
\* coordinate; otherwise the counts are taken and xT = np.zeros(...)
xt_model_build_xt_grid ==
    /\ Running("xt_model", "build_xt_grid")
    /\ IF \/ NaNIn(xt.shots, {"location_x", "location_y"})
          \/ NaNIn(CompletedPasses(xt.passes),
                   {"location_x", "location_y", "end_location_x", "end_location_y"})
          \/ NaNIn(xt.carries,
                   {"location_x", "location_y", "end_location_x", "end_location_y"})
       THEN Fail("xt_model", "ValueError") /\ UNCHANGED xt
       ELSE LET g == CountGrids(xt.passes, xt.carries, xt.shots) IN
            /\ xt' = [xt EXCEPT !.grid = g,
                                !.xT = [z \in DOMAIN g.shot_counts |-> 0], !.i = 0]
            /\ Goto("xt_model", "value_iteration")
    /\ UNCHANGED <<bronze, store, df_events, replaced, xg_model_pkl, reapplied,
                   bronzeVars, utilVars, trainVars, mainVars>>

\* for i in range(ITERS): one round; after the last, build_xt_grid returns
value_iteration ==
    /\ Running("xt_model", "value_iteration")
    /\ xt.i < ITERS
    /\ xt' = [xt EXCEPT !.xT = Round(xt.grid, xt.xT), !.i = xt.i + 1]
    /\ IF xt.i + 1 = ITERS
       THEN Goto("xt_model", "build_gold_xt_player")
       ELSE UNCHANGED pc
    /\ UNCHANGED <<bronze, store, df_events, replaced, xg_model_pkl, reapplied,
                   bronzeVars, utilVars, trainVars, mainVars>>

\* assign_xt(df, xT, action_type) on one row: xt_end - xt_start
xt_added(xT, r) ==
    xT[ZoneOf(r.end_location_x, r.end_location_y)]
    - xT[ZoneOf(r.location_x, r.location_y)]

\* pd.concat([passes_xt[...], carries_xt[...]])
AllActions(passes, carries, xT) ==
    LET scored(rows, action) == [i \in 1 .. Len(rows) |->
            [player_id |-> rows[i].player_id, player_name |-> rows[i].player_name,
             match_id |-> rows[i].match_id, action |-> action,
             xt_added |-> xt_added(xT, rows[i])]]
    IN scored(CompletedPasses(passes), "pass") \o scored(carries, "carry")

\* sort_values("total_xt_added", ascending=False)
RECURSIVE SortByTotal(_)
SortByTotal(S) ==
    IF S = {} THEN <<>>
    ELSE LET top == CHOOSE r \in S : \A q \in S : q.total_xt_added <= r.total_xt_added
         IN <<top>> \o SortByTotal(S \ {top})

\* build_gold_xt_player(passes, carries, xT, minutes): groupby drops the rows
\* whose player_id or player_name is null; matches_played is the number of
\* distinct match_id among the group's own rows; `minutes` is not read.
\* xt_per_90 is not modelled.
build_gold_xt_player(passes, carries, xT, minutes) ==
    LET all_actions == AllActions(passes, carries, xT)
        idx == 1 .. Len(all_actions)
        keys == {<<all_actions[i].player_id, all_actions[i].player_name>> : i \in idx}
        groups == {k \in keys : k[1] # Null /\ k[2] # Null}
        of(k) == {i \in idx : all_actions[i].player_id = k[1]
                              /\ all_actions[i].player_name = k[2]}
        added(I) == SumOver(I, [i \in idx |-> all_actions[i].xt_added])
        player_xt ==
            {[player_id |-> k[1], player_name |-> k[2],
              total_xt_added |-> added(of(k)),
              xt_passes |-> added({i \in of(k) : all_actions[i].action = "pass"}),
              xt_carries |-> added({i \in of(k) : all_actions[i].action = "carry"}),
              actions_count |-> Cardinality(of(k)),
              matches_played |-> Cardinality({all_actions[i].match_id : i \in of(k)}
                                             \ {Null})] : k \in groups}
    IN SortByTotal({r \in player_xt : r.matches_played >= MinMatches})

xt_model_build_gold_xt_player ==
    /\ Running("xt_model", "build_gold_xt_player")
    /\ xt' = [xt EXCEPT !.player_xt =
                  build_gold_xt_player(xt.passes, xt.carries, xt.xT, xt.minutes)]
    /\ Goto("xt_model", "save_results")
    /\ UNCHANGED <<bronze, store, df_events, replaced, xg_model_pkl, reapplied,
                   bronzeVars, utilVars, trainVars, mainVars>>

\* save_results(xT, player_xt): gold_xt_grid (one row per zone; the zones
\* without events hold 0 and are not listed) and gold_xt_player are replaced
xt_model_save_results ==
    /\ Running("xt_model", "save_results")
    /\ LET zones == SeqOfSet(DOMAIN xt.xT)
           grid_df == [columns |-> {"grid_row", "grid_col", "xt_value"},
                       rows |-> [k \in 1 .. Len(zones) |->
                                    [grid_row |-> zones[k] \div GRID_X,
                                     grid_col |-> zones[k] % GRID_X,
                                     xt_value |-> xt.xT[zones[k]]]]]
           player_df == [columns |-> {"player_id", "player_name", "total_xt_added",
                                      "xt_passes", "xt_carries", "actions_count",
                                      "matches_played"},
                         rows |-> xt.player_xt]
       IN /\ store' = [store EXCEPT
                          !["gold_xt_grid"] = TableOf("xt_model", grid_df),
                          !["gold_xt_player"] = TableOf("xt_model", player_df)]
          /\ replaced' = replaced \cup XtTables
    /\ pc' = [prog |-> "xt_model", at |-> "done", err |-> "none"]
    /\ UNCHANGED <<bronze, df_events, xg_model_pkl, reapplied, xt,
                   bronzeVars, utilVars, trainVars, mainVars>>

\* the most events of a frame handed to the xT programme
MaxXtEvents == 3

\* locations of the xT inputs: near the own goal line, at the centre spot
\* and in front of the far goal
AtBox == <<"ndarray", <<Some(110), Some(40)>>>>

\* event templates over three matches, all by player 1: completed passes
\* (pass_type null, or "Recovery" in match 2), an incomplete pass, a pass with
\* neither pass_type nor coordinates, a corner, a carry and a goal
XtPool ==
    {[EvBase EXCEPT !.type = Some("Pass"), !.location = At12,
                    !.pass_end_location = AtBox],
     [EvBase EXCEPT !.type = Some("Pass"), !.match_id = Some(2), !.location = InZoneAt,
                    !.pass_end_location = AtBox, !.pass_type = Some("Recovery")],
     [EvBase EXCEPT !.type = Some("Pass"), !.match_id = Some(3), !.location = At12,
                    !.pass_end_location = InZoneAt],
     [EvBase EXCEPT !.type = Some("Pass"), !.match_id = Some(3), !.location = At12,
                    !.pass_end_location = AtBox, !.pass_outcome = Some("Incomplete")],
     [EvBase EXCEPT !.type = Some("Pass")],
     [EvBase EXCEPT !.type = Some("Pass"), !.location = At12,
                    !.pass_end_location = AtBox, !.pass_type = Some("Corner")],
     [EvBase EXCEPT !.type = Some("Carry"), !.match_id = Some(3), !.location = InZoneAt,
                    !.carry_end_location = AtBox],
     [EvBase EXCEPT !.type = Some("Shot"), !.location = AtBox,
                    !.shot_outcome = Some("Goal")]}

XtInputs ==
    {BronzeOf(<<"none">>, WithIds(q)) : q \in SeqsUpTo(XtPool, MaxXtEvents)}

\* xt_model.py is run on the store silver.run() built, or on a store without
\* tables
InitXt ==
    /\ TrainIdle
    /\ MainIdle
    /\ XtIdle
    /\ BronzeIdle
    /\ UtilIdle
    /\ bronze \in XtInputs
    /\ store \in {StoreAfterSilver(bronze)}
                 \cup (IF bronze.events = <<>> THEN {EmptyStore} ELSE {})
    /\ pc = [prog |-> "none", at |-> "idle", err |-> "none"]
    /\ df_events = <<>>
    /\ replaced = {}
    /\ xg_model_pkl = Null
    /\ reapplied = FALSE

NextXt ==
    \/ xt_model_load_data
    \/ xt_model_build_xt_grid
    \/ value_iteration
    \/ xt_model_build_gold_xt_player
    \/ xt_model_save_results

SpecXt == InitXt /\ [][NextXt]_vars

\* the most moves and the most shots of the frames handed to build_xt_grid
MaxMoves == 2
MaxXtShots == 2

\* the points the moves of the grid inputs start and end at, and the shots
\* are taken from: the centre spot and a point in front of the far goal
GridPoints == {<<60, 40>>, <<110, 40>>}

\* how many moves lead from one point to another, and how many shots from a
\* point were goals (TRUE) or not (FALSE)
MoveCounts ==
    {f \in [GridPoints \X GridPoints -> 0 .. MaxMoves] :
        SumOver(GridPoints \X GridPoints, f) <= MaxMoves}

ShotCounts ==
    {f \in [GridPoints \X BOOLEAN -> 0 .. MaxXtShots] :
        SumOver(GridPoints \X BOOLEAN, f) <= MaxXtShots}

\* the rows of a frame with f[k] rows row(k) for every key k
RowsOf(f, row(_)) ==
    LET keys == SeqOfSet(DOMAIN f) IN
    Flatten([i \in 1 .. Len(keys) |-> Repeat(row(keys[i]), f[keys[i]])])

\* the moves as rows of the passes frame (completed) or of the carries frame
MoveRows(f) ==
    RowsOf(f, LAMBDA k :
        [event_id |-> Null, match_id |-> Some(1), player_id |-> Some(1),
         location_x |-> Some(k[1][1]), location_y |-> Some(k[1][2]),
         end_location_x |-> Some(k[2][1]), end_location_y |-> Some(k[2][2]),
         is_completed |-> TRUE, player_name |-> Some("p")])

ShotRows(f) ==
    RowsOf(f, LAMBDA k :
        [location_x |-> Some(k[1][1]), location_y |-> Some(k[1][2]), is_goal |-> k[2]])

\* build_xt_grid is about to be called with frames of any counts of shots,
\* goals and moves, the moves being all completed passes or all carries
InitXtGrid ==
    /\ TrainIdle
    /\ MainIdle
    /\ BronzeIdle
    /\ UtilIdle
    /\ bronze = BronzeOf(<<"none">>, <<>>)
    /\ store = StoreAfterSilver(bronze)
    /\ pc = [prog |-> "xt_model", at |-> "build_xt_grid", err |-> "none"]
    /\ df_events = <<>>
    /\ replaced = {}
    /\ xg_model_pkl = Null
    /\ reapplied = FALSE
    /\ \E moves \in MoveCounts, shots \in ShotCounts, as_passes \in BOOLEAN :
          xt = [passes |-> IF as_passes THEN MoveRows(moves) ELSE <<>>,
                carries |-> IF as_passes THEN <<>> ELSE MoveRows(moves),
                shots |-> ShotRows(shots), minutes |-> <<>>,
                grid |-> <<>>, xT |-> <<>>, i |-> 0, player_xt |-> <<>>]

NextXtGrid ==
    \/ xt_model_build_xt_grid
    \/ value_iteration

SpecXtGrid == InitXtGrid /\ [][NextXtGrid]_vars

-----------------------------------------------------------------------------
(* Claims about the expected-threat programme *)

\* the pass_type values fact_passes holds for the event e
PassTypesOf(e) ==
    {r.pass_type : r \in {q \in Range(store["fact_passes"].rows) : q.event_id = e}}

\* C26: every pass row load_data() hands to build_xt_grid has non-null start
\* and end coordinates and is not a Kick Off, Goal Kick, Corner or Throw-in,
\* passes whose pass_type is null included.
C26_LoadedPassesFiltered ==
    Running("xt_model", "build_xt_grid")
    => \A i \in 1 .. Len(xt.passes) :
          /\ ~NaNIn(<<xt.passes[i]>>,
                    {"location_x", "location_y", "end_location_x", "end_location_y"})
          /\ \A t \in PassTypesOf(xt.passes[i].event_id) :
                t = Null \/ t[1] \notin SetPieces

\* the rows gold_xt_player holds for player P
XtRowsOf(P) == {r \in Range(store["gold_xt_player"].rows) : r.player_id = P}

\* the xT_added of the completed passes and carries of player P
XtAddedOf(P) ==
    LET all_actions == AllActions(xt.passes, xt.carries, xt.xT)
        mine == {i \in 1 .. Len(all_actions) : all_actions[i].player_id = P}
    IN [n |-> Cardinality(mine),
        sum |-> SumOver(mine, [i \in 1 .. Len(all_actions) |-> all_actions[i].xt_added])]

\* C22: once xt_model.py has saved its results, a player who played in 3 or
\* more matches and has scored actions has a gold_xt_player row holding the
\* sum of xT_added over the player's completed passes and carries, and no
\* player with fewer than 3 matches played has a row.  The matches a player
\* played in are those of the player's events (the `minutes` frame).
C22_PlayersWithThreeMatches ==
    Running("xt_model", "done")
    => \A P \in DOMAIN xt.minutes :
          /\ (xt.minutes[P] >= MinMatches /\ XtAddedOf(P).n > 0)
             => \E r \in XtRowsOf(P) : r.total_xt_added = XtAddedOf(P).sum
          /\ xt.minutes[P] < MinMatches => XtRowsOf(P) = {}

\* C27: in the value iteration, started from the all-zero grid, every zone's
\* value is within [0, 1] (0 .. 100 hundredths) after every round.
C27_ValuesWithinUnit ==
    (pc.prog = "xt_model" /\ pc.at \in {"value_iteration", "build_gold_xt_player"})
    => \A z \in DOMAIN xt.xT : 0 <= xt.xT[z] /\ xt.xT[z] <= 100

\* all rounds are done, and a zone without shots has a positive value that
\* reached it through the transition matrix
C27_Witness ==
    /\ Running("xt_model", "build_gold_xt_player")
    /\ xt.i = ITERS
    /\ \E z \in DOMAIN xt.xT :
          /\ xt.grid.shot_counts[z] = 0
          /\ xt.grid.move_counts[z] > 0
          /\ xt.xT[z] > 0

====
